---- MODULE Spec2Model ----
(***************************************************************************)
(* A model of memdb: lexed statements go through the expression parser,    *)
(* the translator, the (identity) optimizer, the evaluator and the pull    *)
(* operators over the tuple codec and the in-memory storage manager.       *)
(*                                                                         *)
(* Rust Strings (table names, attribute names, text values) are sequences  *)
(* of UTF-8 bytes; a TupleRecord is a sequence of bytes; an i32 is an      *)
(* integer in MinI32..MaxI32.                                              *)
(***************************************************************************)
EXTENDS Integers, Sequences, FiniteSets, TLC

VARIABLES
    storage_manager,   \* StorageManager: next_store_id, schemas, table_storage_directory
    last,              \* the latest DB::execute call: statement, state before it, its result
    inserted,          \* history: per table, the column lists and token values of the accepted INSERTs
    handle,            \* a pull handle built by Evaluation::evaluate, pulled one next at a time
    overflow_checks,   \* whether the build panics on i32 overflow (debug) or wraps (release)
    operator,          \* a pull operator built by hand over given children, as the unit tests do
    applied            \* a library function called on its own: its arguments and what it gave

vars == <<storage_manager, last, inserted, handle, overflow_checks, operator, applied>>

----------------------------------------------------------------------------
(* Bounds of the model *)

MaxRows == 2        \* rows stored in all tables together

----------------------------------------------------------------------------
(* Options and small helpers *)

None == <<>>
Some(x) == <<x>>
IsSome(o) == o /= <<>>
Unwrap(o) == o[1]

Range(s) == {s[i] : i \in 1..Len(s)}

SeqMap(F(_), s) == [i \in 1..Len(s) |-> F(s[i])]

RECURSIVE Flatten(_)
Flatten(ss) == IF ss = <<>> THEN <<>> ELSE Head(ss) \o Flatten(Tail(ss))

\* The elements of a finite set of integers in increasing order.
RECURSIVE SortedSeq(_)
SortedSeq(S) ==
    IF S = {} THEN <<>>
    ELSE LET m == CHOOSE x \in S : \A y \in S : x <= y
         IN <<m>> \o SortedSeq(S \ {m})

\* All orderings of a finite set, as sequences.
Perms(S) ==
    {p \in [1..Cardinality(S) -> S] : \A i, j \in 1..Cardinality(S) : p[i] = p[j] => i = j}

----------------------------------------------------------------------------
(* i32 arithmetic.  The model checker's own integers are 32 bits wide, so   *)
(* every operation detects overflow before it computes anything.            *)

MaxI32 == 2147483647
MinI32 == -2147483647 - 1

AbsI(n) == IF n < 0 THEN 0 - n ELSE n

AddOverflows(a, b) == \/ (b > 0 /\ a > MaxI32 - b)
                      \/ (b < 0 /\ a < MinI32 - b)

\* An addition that stops at the limits of i32 instead of wrapping.
SaturatingAdd(a, b) ==
    IF b > 0 /\ a > MaxI32 - b THEN MaxI32
    ELSE IF b < 0 /\ a < MinI32 - b THEN MinI32
    ELSE a + b

\* a + b modulo 2^32, as a two's complement i32.
WrappingAdd(a, b) ==
    IF b > 0 /\ a > MaxI32 - b THEN ((a - MaxI32) - 1) + ((b - MaxI32) - 1)
    ELSE IF b < 0 /\ a < MinI32 - b THEN ((a + MaxI32) + 1) + ((b + MaxI32) + 1)
    ELSE a + b

WrappingNeg(a) == IF a = MinI32 THEN MinI32 ELSE 0 - a

SubOverflows(a, b) == IF b = MinI32 THEN a >= 0 ELSE AddOverflows(a, 0 - b)

WrappingSub(a, b) ==
    IF b = MinI32
    THEN (IF a >= 0 THEN (a - MaxI32) - 1 ELSE (a + MaxI32) + 1)
    ELSE WrappingAdd(a, 0 - b)

MulOverflows(a, b) ==
    IF a = 0 \/ b = 0 THEN FALSE
    ELSE IF a = MinI32 THEN b /= 1
    ELSE IF b = MinI32 THEN a /= 1
    ELSE IF (a < 0) = (b < 0) THEN AbsI(a) > MaxI32 \div AbsI(b)
    ELSE IF AbsI(b) = 1 THEN FALSE
    ELSE AbsI(a) > (((MaxI32 - AbsI(b)) + 1) \div AbsI(b)) + 1

\* a * b modulo 2^32 by doubling, for 0 <= b.
RECURSIVE WrappingMulNat(_, _)
WrappingMulNat(a, b) ==
    IF b = 0 THEN 0
    ELSE LET h == WrappingMulNat(WrappingAdd(a, a), b \div 2)
         IN IF b % 2 = 1 THEN WrappingAdd(h, a) ELSE h

WrappingMul(a, b) ==
    IF b >= 0 THEN WrappingMulNat(a, b)
    ELSE IF b = MinI32 THEN (IF a % 2 = 1 THEN MinI32 ELSE 0)
    ELSE WrappingMulNat(WrappingNeg(a), 0 - b)

\* Rust's i32 division panics on a zero divisor and on MinI32 / -1.
DivPanics(a, b) == b = 0 \/ (a = MinI32 /\ b = -1)

\* Rust's i32 division truncates toward zero (DivPanics(a, b) excluded).
TruncDiv(a, b) ==
    IF b = MinI32 THEN (IF a = MinI32 THEN 1 ELSE 0)
    ELSE IF a = MinI32
         THEN (IF b = 1 THEN MinI32
               ELSE LET q == (((MaxI32 - AbsI(b)) + 1) \div AbsI(b)) + 1
                    IN IF b > 0 THEN 0 - q ELSE q)
    ELSE LET q == AbsI(a) \div AbsI(b)
         IN IF (a < 0) = (b < 0) THEN q ELSE 0 - q

----------------------------------------------------------------------------
(* Values: StorageTupleValue and LiteralExpr share one shape.               *)

IntV(n) == [t |-> "Integer", i |-> n, s |-> <<>>]
BoolV(b) == [t |-> "Boolean", i |-> IF b THEN 1 ELSE 0, s |-> <<>>]
StrV(bytes) == [t |-> "String", i |-> 0, s |-> bytes]
IdentV(bytes) == [t |-> "Identifier", i |-> 0, s |-> bytes]

Panic(msg) == [k |-> "Panic", msg |-> msg]

\* The ? operator: anything but Ok is returned at once, Ok goes on to F.
Try(r, F(_)) == IF r.k /= "Ok" THEN r ELSE F(r)
\* let v = ...; F(v)
Let(v, F(_)) == F(v)

----------------------------------------------------------------------------
(* Tuple codec: storage/tuple_serde.rs                                      *)

Pow2_8 == 256
Pow2_16 == 65536
Pow2_24 == 16777216

\* An encoding of the magnitude's low 31 bits that leaves the sign bit out.
write_i32_without_sign(v) ==
    LET u == IF v < 0 THEN (v + MaxI32) + 1 ELSE v
    IN <<u \div Pow2_24, (u \div Pow2_16) % 256, (u \div Pow2_8) % 256, u % 256>>

\* write_i32::<BigEndian>: four bytes, two's complement, most significant first.
write_i32(v) ==
    LET u == IF v < 0 THEN (v + MaxI32) + 1 ELSE v   \* the low 31 bits
        top == (u \div Pow2_24) + (IF v < 0 THEN 128 ELSE 0)
    IN <<top, (u \div Pow2_16) % 256, (u \div Pow2_8) % 256, u % 256>>

\* read_i32::<BigEndian> of four bytes.
read_i32(b) ==
    LET low == ((b[1] % 128) * Pow2_24) + (b[2] * Pow2_16) + (b[3] * Pow2_8) + b[4]
    IN IF b[1] >= 128 THEN (low - MaxI32) - 1 ELSE low

\* write_u32::<BigEndian> of a length (lengths in the model stay below 2^31).
write_u32(n) == <<n \div Pow2_24, (n \div Pow2_16) % 256, (n \div Pow2_8) % 256, n % 256>>

\* The size in bytes that serialize_tuple reserves for one value.
value_size(value) ==
    CASE value.t = "Integer" -> 4
      [] value.t = "Boolean" -> 1
      [] value.t = "String" -> 4 + Len(value.s)

RECURSIVE tuple_size(_)
tuple_size(values) ==
    IF values = <<>> THEN 0 ELSE value_size(Head(values)) + tuple_size(Tail(values))

serialize_value(value) ==
    CASE value.t = "Integer" -> write_i32(value.i)
      [] value.t = "Boolean" -> <<IF value.i = 1 THEN 1 ELSE 0>>
      [] value.t = "String" -> write_u32(Len(value.s)) \o value.s

\* serialize_tuple: the values' encodings one after the other.
RECURSIVE serialize_tuple(_)
serialize_tuple(values) ==
    IF values = <<>> THEN <<>>
    ELSE serialize_value(Head(values)) \o serialize_tuple(Tail(values))

\* String::from_utf8 accepts exactly the well-formed UTF-8 byte sequences.
IsCont(b) == b >= 128 /\ b <= 191

RECURSIVE utf8_valid(_)
utf8_valid(b) ==
    IF b = <<>> THEN TRUE
    ELSE LET c == b[1]
             n == Len(b)
         IN IF c < 128 THEN utf8_valid(Tail(b))
            ELSE IF c >= 194 /\ c <= 223
                 THEN n >= 2 /\ IsCont(b[2]) /\ utf8_valid(SubSeq(b, 3, n))
            ELSE IF c >= 224 /\ c <= 239
                 THEN /\ n >= 3
                      /\ IsCont(b[2]) /\ IsCont(b[3])
                      /\ (c = 224 => b[2] >= 160)
                      /\ (c = 237 => b[2] <= 159)
                      /\ utf8_valid(SubSeq(b, 4, n))
            ELSE IF c >= 240 /\ c <= 244
                 THEN /\ n >= 4
                      /\ IsCont(b[2]) /\ IsCont(b[3]) /\ IsCont(b[4])
                      /\ (c = 240 => b[2] >= 144)
                      /\ (c = 244 => b[2] <= 143)
                      /\ utf8_valid(SubSeq(b, 5, n))
            ELSE FALSE

\* read_integer, read_boolean, read_text: [k |-> "Ok", n |-> bytes read, value]
\* or a panic (a slice out of range, or text that is not UTF-8).
read_integer(tuple) ==
    IF Len(tuple) < 4 THEN Panic("slice index out of range")
    ELSE [k |-> "Ok", n |-> 4, value |-> IntV(read_i32(SubSeq(tuple, 1, 4)))]

read_boolean(tuple) ==
    IF Len(tuple) < 1 THEN Panic("slice index out of range")
    ELSE [k |-> "Ok", n |-> 1, value |-> BoolV(tuple[1] /= 0)]

read_text(tuple) ==
    IF Len(tuple) < 4 THEN Panic("slice index out of range")
    ELSE IF tuple[1] >= 128 THEN Panic("slice index out of range")
    ELSE LET text_size == read_i32(SubSeq(tuple, 1, 4))
         IN IF text_size > Len(tuple) - 4 THEN Panic("slice index out of range")
            ELSE LET text == SubSeq(tuple, 5, 4 + text_size)
                 IN IF utf8_valid(text)
                    THEN [k |-> "Ok", n |-> 4 + text_size, value |-> StrV(text)]
                    ELSE Panic("Invalid tuple - failed to read text")

read_value(attr_type, tuple) ==
    CASE attr_type = "Integer" -> read_integer(tuple)
      [] attr_type = "Text" -> read_text(tuple)
      [] attr_type = "Boolean" -> read_boolean(tuple)

\* TupleRecord::to_values into a Vec: the (name, value) pairs in schema order.
\* [k |-> "Ok", values] or a panic; the function has no path that returns Err.
RECURSIVE to_values_from(_, _, _, _)
to_values_from(record, schema, index, values) ==
    IF schema = <<>>
    THEN IF index = Len(record) THEN [k |-> "Ok", values |-> values]
         ELSE Panic("There should be no unread bytes")
    ELSE Try(read_value(Head(schema)[2], SubSeq(record, index + 1, Len(record))),
             LAMBDA r : to_values_from(record, Tail(schema), index + r.n,
                                       Append(values, <<Head(schema)[1], r.value>>)))

to_values(record, schema) == to_values_from(record, schema, 0, <<>>)

\* deserialize_tuple: the values of the given types read one after the other;
\* [k |-> "Ok", values] or a panic ("Invalid data", a slice out of range).
\* Bytes left over after the last value are not looked at.
RECURSIVE deserialize_tuple_from(_, _, _, _)
deserialize_tuple_from(tuple, schema, i, values) ==
    IF schema = <<>> THEN [k |-> "Ok", values |-> values]
    ELSE Try(read_value(Head(schema), SubSeq(tuple, i + 1, Len(tuple))),
             LAMBDA r : deserialize_tuple_from(tuple, Tail(schema), i + r.n,
                                               Append(values, r.value)))

deserialize_tuple(tuple, schema) == deserialize_tuple_from(tuple, schema, 0, <<>>)

\* HashMap::get on the pairs collected into a HashMap: the last pair of a
\* name wins (Extend overwrites); None when the name is absent.
lookup(pairs, name) ==
    LET idx == {i \in 1..Len(pairs) : pairs[i][1] = name}
    IN IF idx = {} THEN None
       ELSE Some(pairs[CHOOSE i \in idx : \A j \in idx : j <= i][2])

----------------------------------------------------------------------------
(* Tokens and the expression parser: parser/expr_parser.rs, parser/ast.rs   *)

Tok(kind) == [tok |-> kind, i |-> 0, s |-> <<>>]
TokIdentifier(bytes) == [tok |-> "Identifier", i |-> 0, s |-> bytes]
TokStringLiteral(bytes) == [tok |-> "StringLiteral", i |-> 0, s |-> bytes]
TokInteger(n) == [tok |-> "Integer", i |-> n, s |-> <<>>]

Literal(lit) == [e |-> "Literal", lit |-> lit]
Binary(left, op, right) == [e |-> "Binary", left |-> left, op |-> op, right |-> right]

ParseOk(expr, pos) == [k |-> "Ok", expr |-> expr, pos |-> pos]
ParseErr == [k |-> "Err", err |-> "ParseError"]

\* impl From<Token> for BinaryOperation; a token without an arm is unreachable!().
BinaryOperation_from(t) ==
    CASE t.tok = "Plus" -> "Addition"
      [] t.tok = "Minus" -> "Subtraction"
      [] t.tok = "Star" -> "Multiplication"
      [] t.tok = "Slash" -> "Division"
      [] t.tok = "Equal" -> "Equal"
      [] t.tok = "LessThan" -> "LessThan"
      [] t.tok = "GreaterThan" -> "GreaterThan"
      [] t.tok = "LessThanOrEqual" -> "LessThanOrEqual"
      [] t.tok = "GreaterThanOrEqual" -> "GreaterThanOrEqual"
      [] OTHER -> "unreachable"

\* TokenStream::peek at position pos (1-based) of the token vector.
peek(tokens, pos) == IF pos <= Len(tokens) THEN Some(tokens[pos]) ELSE None
PeekIs(tokens, pos, kinds) == pos <= Len(tokens) /\ tokens[pos].tok \in kinds
\* TokenStream::next moves on only while tokens remain.
advance(tokens, pos) == IF pos <= Len(tokens) THEN pos + 1 ELSE pos

RECURSIVE l0_expr(_, _), l0_loop(_, _, _), l1_expr(_, _), l1_loop(_, _, _)
RECURSIVE l2_expr(_, _), l2_loop(_, _, _), l3_expr(_, _), l3_loop(_, _, _)
RECURSIVE l4_expr(_, _)

\* l4 -> (l0) | identifier | number | true | false
l4_expr(tokens, pos) ==
    IF pos > Len(tokens) THEN ParseErr
    ELSE LET t == tokens[pos]
         IN CASE t.tok = "Identifier" -> ParseOk(Literal(StrV(t.s)), pos + 1)
              [] t.tok = "Integer" -> ParseOk(Literal(IntV(t.i)), pos + 1)
              [] t.tok = "True" -> ParseOk(Literal(BoolV(TRUE)), pos + 1)
              [] t.tok = "False" -> ParseOk(Literal(BoolV(FALSE)), pos + 1)
              [] t.tok = "LeftParen" ->
                    \* the result of match_token(RightParen, ..) is dropped
                    Try(l0_expr(tokens, pos + 1),
                        LAMBDA r : ParseOk(r.expr, advance(tokens, r.pos)))
              [] OTHER -> ParseErr

l3_loop(tokens, pos, curr) ==
    IF PeekIs(tokens, pos, {"Star", "Slash"})
    THEN LET op == BinaryOperation_from(tokens[pos])
         IN IF op = "unreachable" THEN Panic("is not a binary operation!")
            ELSE Try(l4_expr(tokens, pos + 1),
                     LAMBDA r : l3_loop(tokens, r.pos, Binary(curr, op, r.expr)))
    ELSE ParseOk(curr, pos)

l3_expr(tokens, pos) ==
    Try(l4_expr(tokens, pos),
        LAMBDA first : l3_loop(tokens, first.pos, first.expr))

l2_loop(tokens, pos, curr) ==
    IF PeekIs(tokens, pos, {"Plus", "Minus"})
    THEN LET op == BinaryOperation_from(tokens[pos])
         IN IF op = "unreachable" THEN Panic("is not a binary operation!")
            ELSE Try(l3_expr(tokens, pos + 1),
                     LAMBDA r : l2_loop(tokens, r.pos, Binary(curr, op, r.expr)))
    ELSE ParseOk(curr, pos)

l2_expr(tokens, pos) ==
    Try(l3_expr(tokens, pos),
        LAMBDA first : l2_loop(tokens, first.pos, first.expr))

l1_loop(tokens, pos, curr) ==
    IF PeekIs(tokens, pos, {"LessThan", "GreaterThan", "LessThanOrEqual", "GreaterThanOrEqual"})
    THEN LET op == BinaryOperation_from(tokens[pos])
         IN IF op = "unreachable" THEN Panic("is not a binary operation!")
            ELSE Try(l2_expr(tokens, pos + 1),
                     LAMBDA r : l1_loop(tokens, r.pos, Binary(curr, op, r.expr)))
    ELSE ParseOk(curr, pos)

l1_expr(tokens, pos) ==
    Try(l2_expr(tokens, pos),
        LAMBDA first : l1_loop(tokens, first.pos, first.expr))

l0_loop(tokens, pos, curr) ==
    IF PeekIs(tokens, pos, {"Equal", "NotEqual"})
    THEN LET op == BinaryOperation_from(tokens[pos])
         IN IF op = "unreachable" THEN Panic("is not a binary operation!")
            ELSE Try(l1_expr(tokens, pos + 1),
                     LAMBDA r : l0_loop(tokens, r.pos, Binary(curr, op, r.expr)))
    ELSE ParseOk(curr, pos)

l0_expr(tokens, pos) ==
    Try(l1_expr(tokens, pos),
        LAMBDA first : l0_loop(tokens, first.pos, first.expr))

\* Parser::expr
Parser_expr(tokens, pos) == l0_expr(tokens, pos)

----------------------------------------------------------------------------
(* The statement parser: parser/query_parser.rs.  Its input is the token    *)
(* vector that Lexer::scan returns, which always ends with the EOF token.   *)

Ok(value, pos) == [k |-> "Ok", value |-> value, pos |-> pos]

\* ParseHelper::match_token(want, input.next())
match_token(want, tokens, pos) == PeekIs(tokens, pos, {want})
\* ParseHelper::match_identifier(input.next())
match_identifier(tokens, pos) == PeekIs(tokens, pos, {"Identifier"})

\* Parser::attribute_definitions: name type [PRIMARY KEY] {, name type [PRIMARY KEY]}
RECURSIVE Parser_attribute_definitions(_, _, _)
Parser_attribute_definitions(tokens, pos, definitions) ==
    IF ~match_identifier(tokens, pos) THEN ParseErr
    ELSE IF ~PeekIs(tokens, pos + 1, {"KeywordInteger", "KeywordVarchar"}) THEN ParseErr
    ELSE LET is_primary_key == PeekIs(tokens, pos + 2, {"KeywordPrimaryKey"})
             after == IF is_primary_key THEN pos + 3 ELSE pos + 2
             def == [name |-> tokens[pos].s,
                     attribute_type |-> IF tokens[pos + 1].tok = "KeywordInteger"
                                        THEN "Integer" ELSE "Text",
                     is_primary_key |-> is_primary_key]
         IN IF PeekIs(tokens, after, {"Comma"})
            THEN Parser_attribute_definitions(tokens, after + 1, Append(definitions, def))
            ELSE Ok(Append(definitions, def), after)

\* Parser::create_table_stmt
create_table_stmt(tokens, pos) ==
    IF ~(/\ match_token("Create", tokens, pos)
         /\ match_token("Table", tokens, pos + 1)
         /\ match_identifier(tokens, pos + 2)
         /\ match_token("LeftParen", tokens, pos + 3)) THEN ParseErr
    ELSE Try(Parser_attribute_definitions(tokens, pos + 4, <<>>),
             LAMBDA defs :
                IF ~(/\ match_token("RightParen", tokens, defs.pos)
                     /\ match_token("Semicolon", tokens, defs.pos + 1)) THEN ParseErr
                ELSE Ok([stmt |-> "CreateTable",
                         table_name |-> tokens[pos + 2].s,
                         attribute_definitions |-> defs.value], defs.pos + 2))

\* Parser::identifiers: identifier {, identifier}
RECURSIVE identifiers(_, _, _)
identifiers(tokens, pos, ids) ==
    IF ~match_identifier(tokens, pos) THEN ParseErr
    ELSE IF PeekIs(tokens, pos + 1, {"Comma"})
         THEN identifiers(tokens, pos + 2, Append(ids, tokens[pos].s))
         ELSE Ok(Append(ids, tokens[pos].s), pos + 1)

AttributeValue_String(bytes) == [v |-> "String", s |-> bytes, expr |-> <<>>]
AttributeValue_Expr(e) == [v |-> "Expr", s |-> <<>>, expr |-> <<e>>]

\* Parser::attribute_values: a string literal or an expression, comma separated
RECURSIVE Parser_attribute_values(_, _, _)
Parser_attribute_values(tokens, pos, values) ==
    Try(IF PeekIs(tokens, pos, {"StringLiteral"})
        THEN Ok(AttributeValue_String(tokens[pos].s), pos + 1)
        ELSE Try(Parser_expr(tokens, pos),
                 LAMBDA r : Ok(AttributeValue_Expr(r.expr), r.pos)),
        LAMBDA v :
           IF PeekIs(tokens, v.pos, {"Comma"})
           THEN Parser_attribute_values(tokens, v.pos + 1, Append(values, v.value))
           ELSE Ok(Append(values, v.value), v.pos))

\* Parser::insert_stmt
insert_stmt(tokens, pos) ==
    IF ~(/\ match_token("Insert", tokens, pos)
         /\ match_token("KeywordInto", tokens, pos + 1)
         /\ match_identifier(tokens, pos + 2)
         /\ match_token("LeftParen", tokens, pos + 3)) THEN ParseErr
    ELSE Try(identifiers(tokens, pos + 4, <<>>),
             LAMBDA names :
                IF ~(/\ match_token("RightParen", tokens, names.pos)
                     /\ match_token("KeywordValues", tokens, names.pos + 1)
                     /\ match_token("LeftParen", tokens, names.pos + 2)) THEN ParseErr
                ELSE Try(Parser_attribute_values(tokens, names.pos + 3, <<>>),
                         LAMBDA values :
                            IF ~(/\ match_token("RightParen", tokens, values.pos)
                                 /\ match_token("Semicolon", tokens, values.pos + 1))
                            THEN ParseErr
                            ELSE Ok([stmt |-> "Insert",
                                     table_name |-> tokens[pos + 2].s,
                                     attribute_names |-> names.value,
                                     attribute_values |-> values.value], values.pos + 2)))

Star == [star |-> TRUE, ids |-> <<>>]
Identifiers(ids) == [star |-> FALSE, ids |-> ids]

\* Parser::select_properties: * or identifier {, identifier}
select_properties(tokens, pos) ==
    IF PeekIs(tokens, pos, {"Star"}) THEN Ok(Star, pos + 1)
    ELSE IF PeekIs(tokens, pos, {"Identifier"})
         THEN Try(identifiers(tokens, pos, <<>>), LAMBDA r : Ok(Identifiers(r.value), r.pos))
    ELSE ParseErr

\* Parser::match_alias: [AS identifier]
match_alias(tokens, pos) ==
    IF PeekIs(tokens, pos, {"KeywordAs"})
    THEN IF match_identifier(tokens, pos + 1) THEN Ok(Some(tokens[pos + 1].s), pos + 2)
         ELSE ParseErr
    ELSE Ok(None, pos)

\* Parser::where_clause_with_prefix: [prefix expression]
where_clause_with_prefix(prefix, tokens, pos) ==
    IF PeekIs(tokens, pos, {prefix})
    THEN Try(Parser_expr(tokens, pos + 1), LAMBDA r : Ok(Some(r.expr), r.pos))
    ELSE Ok(None, pos)

FromClause_Table(name) == [from |-> "Table", table_name |-> name, select |-> <<>>]
FromClause_Select(stmt) == [from |-> "Select", table_name |-> <<>>, select |-> <<stmt>>]

SingleSelectStmt(properties, from_clause, where_clause, alias) ==
    [stmt |-> "Select", properties |-> properties, from_clause |-> from_clause,
     where_clause |-> where_clause, alias |-> alias]

JoinStmt(properties, left, right, predicate) ==
    [stmt |-> "Join", properties |-> properties, left |-> left, right |-> right,
     predicate |-> predicate]

\* select_stmt::from_clause_to_join_query wraps one side of a join in a select.
from_clause_to_join_query(from_clause, alias) ==
    SingleSelectStmt(Star, from_clause, None, alias)

RECURSIVE select_stmt(_, _, _), parse_from_clause(_, _)

\* Parser::parse_from_clause: [(] table | select [)] [AS alias]
parse_from_clause(tokens, pos) ==
    LET has_parenthesis == PeekIs(tokens, pos, {"LeftParen"})
        start == IF has_parenthesis THEN pos + 1 ELSE pos
    IN Try(IF PeekIs(tokens, start, {"Identifier"})
           THEN Ok(FromClause_Table(tokens[start].s), start + 1)
           ELSE IF PeekIs(tokens, start, {"Select"})
                THEN Try(select_stmt(tokens, start, FALSE),
                         LAMBDA s : Ok(FromClause_Select(s.value), s.pos))
           ELSE ParseErr,
           LAMBDA res :
              IF has_parenthesis /\ ~match_token("RightParen", tokens, res.pos) THEN ParseErr
              ELSE Try(match_alias(tokens, IF has_parenthesis THEN res.pos + 1 ELSE res.pos),
                       LAMBDA alias :
                          Ok([from_clause |-> res.value, alias |-> alias.value], alias.pos)))

\* Parser::select_stmt
select_stmt(tokens, pos, is_stmt) ==
    IF ~match_token("Select", tokens, pos) THEN ParseErr
    ELSE Try(select_properties(tokens, pos + 1),
     LAMBDA properties :
        IF ~match_token("From", tokens, properties.pos) THEN ParseErr
        ELSE Try(parse_from_clause(tokens, properties.pos + 1),
         LAMBDA lh :
            Try(IF PeekIs(tokens, lh.pos, {"KeywordInnerJoin"})
                THEN Try(parse_from_clause(tokens, lh.pos + 1),
                      LAMBDA rh :
                         Try(where_clause_with_prefix("KeywordOn", tokens, rh.pos),
                          LAMBDA on :
                             Ok(JoinStmt(properties.value,
                                         from_clause_to_join_query(lh.value.from_clause,
                                                                   lh.value.alias),
                                         from_clause_to_join_query(rh.value.from_clause,
                                                                   rh.value.alias),
                                         on.value), on.pos)))
                ELSE Try(where_clause_with_prefix("Where", tokens, lh.pos),
                      LAMBDA w :
                         Ok(SingleSelectStmt(properties.value, lh.value.from_clause,
                                             w.value, lh.value.alias), w.pos)),
             LAMBDA stmt :
                IF is_stmt /\ ~match_token("Semicolon", tokens, stmt.pos) THEN ParseErr
                ELSE Ok(stmt.value, IF is_stmt THEN stmt.pos + 1 ELSE stmt.pos))))

\* Parser::parse
parse(tokens) ==
    IF PeekIs(tokens, 1, {"Create"}) THEN create_table_stmt(tokens, 1)
    ELSE IF PeekIs(tokens, 1, {"Insert"}) THEN insert_stmt(tokens, 1)
    ELSE IF PeekIs(tokens, 1, {"Select"}) THEN select_stmt(tokens, 1, TRUE)
    ELSE ParseErr

----------------------------------------------------------------------------
(* Catalog: storage/storage_manager.rs, storage/table_storage.rs            *)

Dot == <<46>>

\* Attributes::with_alias: format!("{}.{}", alias, name) on every attribute.
Attributes_with_alias(attributes, alias) ==
    [i \in 1..Len(attributes) |-> <<alias \o Dot \o attributes[i][1], attributes[i][2]>>]

\* Attributes::get_attribute_type: the type of the first attribute of that name.
get_attribute_type(attributes, name) ==
    LET idx == {i \in 1..Len(attributes) : attributes[i][1] = name}
    IN IF idx = {} THEN None
       ELSE Some(attributes[CHOOSE i \in idx : \A j \in idx : i <= j][2])

\* Attributes::as_lookup_table: a HashMap from name to type.  The model keeps
\* the pairs and reads them with lookup, where the last pair of a name wins.
as_lookup_table(attributes) == attributes

Schema_new(store_id, primary_key, attributes) ==
    [store_id |-> store_id, primary_key |-> primary_key, attributes |-> attributes]

\* Schema::with_alias
Schema_with_alias(schema, alias) ==
    Schema_new(schema.store_id, alias \o Dot \o schema.primary_key,
               Attributes_with_alias(schema.attributes, alias))

TupleId(store_id, slot_index) == [store_id |-> store_id, slot_index |-> slot_index]

\* Storage::new.  tuple_store is a HashMap from TupleId to record; iter_order
\* is the order in which that HashMap currently iterates its keys.
Storage_new(store_id) ==
    [next_index |-> 0, store_id |-> store_id, tuple_store |-> <<>>, iter_order |-> <<>>]

\* The iteration orders a HashMap may have after key id is added to a map that
\* iterated as iter_order: hashing is seeded at random and an insert may
\* rehash, so every ordering of the keys is possible.
hash_iteration_orders(iter_order, id) == Perms(Range(iter_order) \cup {id})

\* An insert that does not advance next_index.
insert_tuple_reusing_slot(storage, tuple, new_order) ==
    LET id == TupleId(storage.store_id, storage.next_index)
    IN [storage EXCEPT !.tuple_store = [k \in (DOMAIN storage.tuple_store) \cup {id} |->
                                           IF k = id THEN tuple ELSE storage.tuple_store[k]],
                       !.iter_order = new_order]

\* Storage::insert_tuple, given the iteration order the HashMap ends up with.
insert_tuple(storage, tuple, new_order) ==
    LET id == TupleId(storage.store_id, storage.next_index)
    IN [storage EXCEPT !.next_index = storage.next_index + 1,
                       !.tuple_store = [k \in (DOMAIN storage.tuple_store) \cup {id} |->
                                           IF k = id THEN tuple ELSE storage.tuple_store[k]],
                       !.iter_order = new_order]

\* Storage::scan: the (id, record) pairs in the HashMap's iteration order.
scan(storage) ==
    [i \in 1..Len(storage.iter_order) |->
        <<storage.iter_order[i], storage.tuple_store[storage.iter_order[i]]>>]

\* StorageManager::new
StorageManager_new ==
    [next_store_id |-> 0, table_storage_directory |-> <<>>, schemas |-> <<>>]

Err(variant, why) == [k |-> "Err", err |-> variant, why |-> why]

\* A create_table that does not look whether the table exists.
create_table_unconditionally(sm, req) ==
    LET store_id == sm.next_store_id
    IN [sm |-> [next_store_id |-> store_id + 1,
                schemas |-> [t \in (DOMAIN sm.schemas) \cup {req.table_name} |->
                                IF t = req.table_name
                                THEN Schema_new(store_id, req.primary_key, req.schema_attributes)
                                ELSE sm.schemas[t]],
                table_storage_directory |->
                    [s \in (DOMAIN sm.table_storage_directory) \cup {store_id} |->
                        IF s = store_id THEN Storage_new(store_id)
                        ELSE sm.table_storage_directory[s]]],
        result |-> [k |-> "Ok"]]

\* StorageManager::create_new_store_id is the store_id/next_store_id pair below.
\* StorageManager::create_table: [sm, result]
create_table(sm, req) ==
    IF req.table_name \in DOMAIN sm.schemas
    THEN [sm |-> sm, result |-> Err("StorageError", "AlreadyExists")]
    ELSE LET store_id == sm.next_store_id
         IN [sm |-> [next_store_id |-> store_id + 1,
                     schemas |-> [t \in (DOMAIN sm.schemas) \cup {req.table_name} |->
                                     IF t = req.table_name
                                     THEN Schema_new(store_id, req.primary_key, req.schema_attributes)
                                     ELSE sm.schemas[t]],
                     table_storage_directory |->
                         [s \in (DOMAIN sm.table_storage_directory) \cup {store_id} |->
                             IF s = store_id THEN Storage_new(store_id)
                             ELSE sm.table_storage_directory[s]]],
             result |-> [k |-> "Ok"]]

\* StorageManager::get_table_store: the store of the table's schema, if both exist.
get_table_store(sm, table_name) ==
    IF table_name \in DOMAIN sm.schemas
       /\ sm.schemas[table_name].store_id \in DOMAIN sm.table_storage_directory
    THEN Some(sm.table_storage_directory[sm.schemas[table_name].store_id])
    ELSE None

\* StorageManager::get_schema
get_schema(sm, table_name, alias) ==
    IF table_name \in DOMAIN sm.schemas
    THEN Some(IF IsSome(alias) THEN Schema_with_alias(sm.schemas[table_name], Unwrap(alias))
              ELSE sm.schemas[table_name])
    ELSE None

----------------------------------------------------------------------------
(* Type checking: translate/type_check.rs                                   *)

TypeOk(type) == [k |-> "Ok", type |-> type]

RECURSIVE type_check_expr(_, _)

\* A type check that takes Text operands through the Integer arm.
type_check_expr_text_as_integer(e, ctx) ==
    IF e.e = "Binary"
    THEN Try(type_check_expr(e.left, ctx), LAMBDA left :
         Try(type_check_expr(e.right, ctx), LAMBDA right :
            IF left.type /= right.type THEN Err("TypeError", "left != right")
            ELSE IF left.type = "Boolean"
                 THEN IF e.op \in {"Equal", "NotEqual"} THEN TypeOk("Boolean")
                      ELSE Err("TypeError", "not valid for operation")
            ELSE IF e.op \in {"Equal", "NotEqual", "LessThan", "LessThanOrEqual",
                              "GreaterThan", "GreaterThanOrEqual"}
                 THEN TypeOk("Boolean")
                 ELSE TypeOk("Integer")))
    ELSE CASE e.lit.t = "Integer" -> TypeOk("Integer")
           [] e.lit.t = "Boolean" -> TypeOk("Boolean")
           [] e.lit.t = "String" -> TypeOk("Text")
           [] e.lit.t = "Identifier" ->
                LET t == lookup(ctx, e.lit.s)
                IN IF IsSome(t) THEN TypeOk(Unwrap(t))
                   ELSE Err("InvalidArguments", "no such attribute")

\* type_check_expr: the type of an expression under the attributes' types,
\* a TypeError, or InvalidArguments for an attribute the context lacks.
type_check_expr(e, ctx) ==
    IF e.e = "Binary"
    THEN Try(type_check_expr(e.left, ctx), LAMBDA left :
         Try(type_check_expr(e.right, ctx), LAMBDA right :
            IF left.type /= right.type THEN Err("TypeError", "left != right")
            ELSE IF left.type \in {"Text", "Boolean"}
                 THEN IF e.op \in {"Equal", "NotEqual"} THEN TypeOk("Boolean")
                      ELSE Err("TypeError", "not valid for operation")
            ELSE IF e.op \in {"Equal", "NotEqual", "LessThan", "LessThanOrEqual",
                              "GreaterThan", "GreaterThanOrEqual"}
                 THEN TypeOk("Boolean")
                 ELSE TypeOk("Integer")))
    ELSE CASE e.lit.t = "Integer" -> TypeOk("Integer")
           [] e.lit.t = "Boolean" -> TypeOk("Boolean")
           [] e.lit.t = "String" -> TypeOk("Text")
           [] e.lit.t = "Identifier" ->
                LET t == lookup(ctx, e.lit.s)
                IN IF IsSome(t) THEN TypeOk(Unwrap(t))
                   ELSE Err("InvalidArguments", "no such attribute")

\* type_check_projection: the projected attributes with their types, in list order.
RECURSIVE type_check_projection(_, _, _)
type_check_projection(attr_names, ctx, attributes) ==
    IF attr_names = <<>> THEN [k |-> "Ok", attributes |-> attributes]
    ELSE LET t == lookup(ctx, Head(attr_names))
         IN IF IsSome(t)
            THEN type_check_projection(Tail(attr_names), ctx,
                                       Append(attributes, <<Head(attr_names), Unwrap(t)>>))
            ELSE Err("NoSuchAttribute", "projection")

type_check_join_predicate(predicate, ctx) ==
    IF predicate = None THEN Err("InvalidArguments", "no join condition provided")
    ELSE Try(type_check_expr(Unwrap(predicate), ctx), LAMBDA t :
            IF t.type = "Boolean" THEN [k |-> "Ok", expr |-> Unwrap(predicate)]
            ELSE Err("TypeError", "join condition must be Boolean"))

----------------------------------------------------------------------------
(* Translator: translate/mod.rs                                             *)

PlanOk(plan) == [k |-> "Ok", plan |-> plan]

\* Translator::get_table_schema
get_table_schema(sm, table_name, alias) ==
    LET schema == get_schema(sm, table_name, alias)
    IN IF IsSome(schema) THEN [k |-> "Ok", schema |-> Unwrap(schema)]
       ELSE Err("NoSuchTable", "get_table_schema")

\* Translator::translate_attribute_type
translate_attribute_type(attribute_type) ==
    CASE attribute_type = "Integer" -> "Integer"
      [] attribute_type = "Text" -> "Text"

\* The HashSet loop of translate_create_table: some column name occurs twice.
has_duplicate_name(attribute_definitions) ==
    \E i, j \in 1..Len(attribute_definitions) :
        i < j /\ attribute_definitions[i].name = attribute_definitions[j].name

\* A translate_create_table that does not look for a repeated column name.
translate_create_table_any_names(sm, stmt) ==
    LET primary_keys == {i \in 1..Len(stmt.attribute_definitions) :
                            stmt.attribute_definitions[i].is_primary_key}
    IN IF IsSome(get_schema(sm, stmt.table_name, None))
       THEN Err("StorageError", "AlreadyExists")
       ELSE IF Cardinality(primary_keys) = 0 THEN Err("PrimaryKeyRequired", "")
       ELSE IF Cardinality(primary_keys) /= 1 THEN Err("MultiplePrimaryKeys", "")
       ELSE PlanOk([plan |-> "CreateTable",
                    table_name |-> stmt.table_name,
                    primary_key |-> stmt.attribute_definitions[CHOOSE i \in primary_keys : TRUE].name,
                    schema_attributes |->
                        [i \in 1..Len(stmt.attribute_definitions) |->
                            <<stmt.attribute_definitions[i].name,
                              translate_attribute_type(stmt.attribute_definitions[i].attribute_type)>>]])

\* Translator::translate_create_table
translate_create_table(sm, stmt) ==
    LET primary_keys == {i \in 1..Len(stmt.attribute_definitions) :
                            stmt.attribute_definitions[i].is_primary_key}
    IN IF IsSome(get_schema(sm, stmt.table_name, None))
       THEN Err("StorageError", "AlreadyExists")
       ELSE IF Cardinality(primary_keys) = 0 THEN Err("PrimaryKeyRequired", "")
       ELSE IF Cardinality(primary_keys) /= 1 THEN Err("MultiplePrimaryKeys", "")
       ELSE IF has_duplicate_name(stmt.attribute_definitions)
            THEN Err("DuplicateAttributeName", "create table")
       ELSE PlanOk([plan |-> "CreateTable",
                    table_name |-> stmt.table_name,
                    primary_key |-> stmt.attribute_definitions[CHOOSE i \in primary_keys : TRUE].name,
                    schema_attributes |->
                        [i \in 1..Len(stmt.attribute_definitions) |->
                            <<stmt.attribute_definitions[i].name,
                              translate_attribute_type(stmt.attribute_definitions[i].attribute_type)>>]])

ValueOk(value) == [k |-> "Ok", value |-> value]

\* i32 + - *: an overflow panics in a build with overflow checks and wraps otherwise.
checked_arith(overflows, wrapped) ==
    IF overflows /\ overflow_checks THEN Panic("attempt to compute with overflow")
    ELSE ValueOk(IntV(wrapped))

\* The Integer/Integer arm of resolve_binary_expr.
resolve_integer_op(op, left, right) ==
    CASE op = "Addition" -> checked_arith(AddOverflows(left, right), WrappingAdd(left, right))
      [] op = "Subtraction" -> checked_arith(SubOverflows(left, right), WrappingSub(left, right))
      [] op = "Multiplication" -> checked_arith(MulOverflows(left, right), WrappingMul(left, right))
      [] op = "Division" -> IF DivPanics(left, right) THEN Panic("attempt to divide")
                            ELSE ValueOk(IntV(TruncDiv(left, right)))
      [] op = "Equal" -> ValueOk(BoolV(left = right))
      [] op = "NotEqual" -> ValueOk(BoolV(left /= right))
      [] op = "LessThan" -> ValueOk(BoolV(left < right))
      [] op = "LessThanOrEqual" -> ValueOk(BoolV(left <= right))
      [] op = "GreaterThan" -> ValueOk(BoolV(left > right))
      [] op = "GreaterThanOrEqual" -> ValueOk(BoolV(left >= right))

\* resolve_attribute_value::resolve_expr with resolve_binary_expr and
\* resolve_literal_expr: constant folding of an INSERT value.
RECURSIVE resolve_expr(_)
resolve_expr(e) ==
    IF e.e = "Literal"
    THEN IF e.lit.t = "Identifier"
         THEN Err("InvalidArguments", "Identifiers cannot appear here")
         ELSE ValueOk(e.lit)
    ELSE Try(resolve_expr(e.left), LAMBDA left :
         Try(resolve_expr(e.right), LAMBDA right :
            CASE left.value.t = "String" ->
                    Err("InvalidArguments", "left operand cannot be strings")
              [] left.value.t = "Integer" ->
                    IF right.value.t = "Integer"
                    THEN resolve_integer_op(e.op, left.value.i, right.value.i)
                    ELSE Err("InvalidArguments", "Invalid right operand")
              [] left.value.t = "Boolean" ->
                    IF right.value.t = "Boolean"
                    THEN IF e.op = "Equal"
                         THEN ValueOk(BoolV(left.value.i = right.value.i))
                         ELSE IF e.op = "NotEqual"
                         THEN ValueOk(BoolV(left.value.i /= right.value.i))
                         ELSE Err("InvalidArguments", "Invalid operation with boolean operands")
                    ELSE Err("InvalidArguments", "Invalid right operand")))

\* Translator::resolve_attribute_value
resolve_attribute_value(attribute_value) ==
    IF attribute_value.v = "String" THEN ValueOk(StrV(attribute_value.s))
    ELSE resolve_expr(Unwrap(attribute_value.expr))

\* The resolving loop of translate_insert: the first failure ends it.
RECURSIVE resolve_attribute_values(_, _)
resolve_attribute_values(attribute_values, resolved) ==
    IF attribute_values = <<>> THEN [k |-> "Ok", values |-> resolved]
    ELSE Try(resolve_attribute_value(Head(attribute_values)), LAMBDA r :
            resolve_attribute_values(Tail(attribute_values), Append(resolved, r.value)))

\* translate_insert::resolved_value_to_type; the Boolean arm is unimplemented!().
resolved_value_to_type(value) ==
    CASE value.t = "Integer" -> "Integer"
      [] value.t = "String" -> "Text"
      [] value.t = "Boolean" -> "unimplemented"

\* The checking loop of translate_insert over the zipped names and values.
RECURSIVE check_insert_types(_, _, _)
check_insert_types(schema, names, values) ==
    IF names = <<>> \/ values = <<>> THEN [k |-> "Ok"]
    ELSE LET expected == get_attribute_type(schema.attributes, Head(names))
         IN IF IsSome(expected)
            THEN IF resolved_value_to_type(Head(values)) = "unimplemented"
                 THEN Panic("not implemented: no boolean upstream")
                 ELSE IF Unwrap(expected) /= resolved_value_to_type(Head(values))
                 THEN Err("InvalidArguments", "type mismatch for attribute")
                 ELSE check_insert_types(schema, Tail(names), Tail(values))
            ELSE Err("InvalidArguments", "no such attribute in table")

\* Translator::translate_insert
translate_insert(sm, stmt) ==
    Try(get_table_schema(sm, stmt.table_name, None), LAMBDA schema :
       IF Len(stmt.attribute_names) /= Len(stmt.attribute_values)
       THEN Err("InvalidArguments", "attribute length mismatch")
       ELSE IF stmt.attribute_values = <<>>
       THEN Err("InvalidArguments", "No attribute values provided")
       ELSE Try(resolve_attribute_values(stmt.attribute_values, <<>>), LAMBDA resolved :
            Try(check_insert_types(schema.schema, stmt.attribute_names, resolved.values),
                LAMBDA checked :
                   PlanOk([plan |-> "InsertTuple",
                           table_name |-> stmt.table_name,
                           tuple |-> serialize_tuple(resolved.values)]))))

\* QueryResultSchema::aliased
aliased(attributes, alias) ==
    IF IsSome(alias) THEN Attributes_with_alias(attributes, Unwrap(alias)) ELSE attributes

QueryPlan(result_schema, plan) == [result_schema |-> result_schema, plan |-> plan]

ScanNode(schema, table_name) == [node |-> "Scan", schema |-> schema, table_name |-> table_name]
FilterNode(predicate, schema, child) ==
    [node |-> "Filter", predicate |-> predicate, schema |-> schema, child |-> child]
ProjectNode(schema, record_schema, attributes, child) ==
    [node |-> "Project", schema |-> schema, record_schema |-> record_schema,
     attributes |-> attributes, child |-> child]
JoinNode(predicate, schema, left, right) ==
    [node |-> "Join", predicate |-> predicate, schema |-> schema, left |-> left, right |-> right]

\* Translator::translate_projection
translate_projection(child_plan, projected_attr_names, alias) ==
    LET aliased_result_schema == aliased(child_plan.result_schema, alias)
    IN Try(type_check_projection(projected_attr_names,
                                 as_lookup_table(aliased_result_schema), <<>>),
           LAMBDA projection :
              PlanOk(QueryPlan(projection.attributes,
                               ProjectNode(projection.attributes, child_plan.result_schema,
                                           projected_attr_names, child_plan))))

RECURSIVE translate_select(_, _), translate_single_select(_, _), translate_join(_, _)

\* Translator::translate_single_select
translate_single_select(sm, stmt) ==
    Try(IF stmt.from_clause.from = "Table"
        THEN Try(get_table_schema(sm, stmt.from_clause.table_name, None), LAMBDA schema :
                PlanOk(QueryPlan(schema.schema.attributes,
                                 ScanNode(schema.schema.attributes,
                                          stmt.from_clause.table_name))))
        ELSE translate_select(sm, Unwrap(stmt.from_clause.select)),
     LAMBDA child :
        Try(IF IsSome(stmt.where_clause)
            THEN Try(type_check_expr(Unwrap(stmt.where_clause),
                                     as_lookup_table(aliased(child.plan.result_schema,
                                                             stmt.alias))),
                  LAMBDA checked :
                     PlanOk(QueryPlan(child.plan.result_schema,
                                      FilterNode(Unwrap(stmt.where_clause),
                                                 child.plan.result_schema,
                                                 child.plan))))
            ELSE PlanOk(child.plan),
         LAMBDA filtered :
            IF stmt.properties.star
            THEN PlanOk(QueryPlan(aliased(filtered.plan.result_schema, stmt.alias),
                                  filtered.plan.plan))
            ELSE translate_projection(filtered.plan, stmt.properties.ids, stmt.alias)))

\* A translate_join that does not compare the attribute names of its sides.
translate_join_any_names(sm, stmt) ==
    Try(translate_single_select(sm, stmt.left), LAMBDA left :
    Try(translate_single_select(sm, stmt.right), LAMBDA right :
       LET joined_records_schema == left.plan.result_schema \o right.plan.result_schema
       IN Try(type_check_join_predicate(stmt.predicate,
                                        as_lookup_table(joined_records_schema)),
              LAMBDA predicate_expr :
                 Let(QueryPlan(joined_records_schema,
                               JoinNode(predicate_expr.expr, joined_records_schema,
                                        left.plan, right.plan)),
                     LAMBDA join_plan :
                        IF stmt.properties.star THEN PlanOk(join_plan)
                        ELSE translate_projection(join_plan, stmt.properties.ids, None)))))

\* Translator::translate_join
translate_join(sm, stmt) ==
    Try(translate_single_select(sm, stmt.left), LAMBDA left :
    Try(translate_single_select(sm, stmt.right), LAMBDA right :
       LET left_attributes == left.plan.result_schema
           right_attributes == right.plan.result_schema
           left_keys == {left_attributes[i][1] : i \in 1..Len(left_attributes)}
           right_keys == {right_attributes[i][1] : i \in 1..Len(right_attributes)}
           joined_records_schema == left_attributes \o right_attributes
       IN IF right_keys \cap left_keys /= {}
          THEN Err("DuplicateAttributeName", "join")
          ELSE Try(type_check_join_predicate(stmt.predicate,
                                             as_lookup_table(joined_records_schema)),
                LAMBDA predicate_expr :
                   Let(QueryPlan(joined_records_schema,
                                 JoinNode(predicate_expr.expr, joined_records_schema,
                                          left.plan, right.plan)),
                       LAMBDA join_plan :
                          IF stmt.properties.star THEN PlanOk(join_plan)
                          ELSE translate_projection(join_plan, stmt.properties.ids, None)))))

\* Translator::translate_select; the plan is the QueryPlan of Plan::Query.
translate_select(sm, stmt) ==
    IF stmt.stmt = "Select" THEN translate_single_select(sm, stmt)
    ELSE translate_join(sm, stmt)

\* Translator::translate
translate(sm, stmt) ==
    CASE stmt.stmt = "CreateTable" -> translate_create_table(sm, stmt)
      [] stmt.stmt = "Insert" -> translate_insert(sm, stmt)
      [] OTHER -> Try(translate_select(sm, stmt),
                      LAMBDA q : PlanOk([plan |-> "Query", query |-> q.plan]))

----------------------------------------------------------------------------
(* Optimizer: planner/optimizer/mod.rs                                      *)

\* Optimizer::run keeps the plan node of a query and drops QueryPlan.result_schema.
Optimizer_run(plan) ==
    IF plan.plan = "Query" THEN [plan |-> "Query", query |-> plan.query.plan]
    ELSE plan

\* ExecutionPlan::result_schema: the schema field of the root node of a query.
result_schema(plan) ==
    IF plan.plan = "Query" THEN Some(plan.query.schema) ELSE None

----------------------------------------------------------------------------
(* Predicate evaluation: execution/expr_evaluation.rs, and the copy of it   *)
(* in execution/filter.rs                                                   *)

\* The Integer/Integer arm of evaluate_expr.
evaluate_integer_op(op, left, right) ==
    CASE op = "Addition" -> checked_arith(AddOverflows(left, right), WrappingAdd(left, right))
      [] op = "Subtraction" -> checked_arith(SubOverflows(left, right), WrappingSub(left, right))
      [] op = "Multiplication" -> checked_arith(MulOverflows(left, right), WrappingMul(left, right))
      [] op = "Division" -> IF DivPanics(left, right) THEN Panic("attempt to divide")
                            ELSE ValueOk(IntV(TruncDiv(left, right)))
      [] op = "Equal" -> ValueOk(BoolV(left = right))
      [] op = "NotEqual" -> ValueOk(BoolV(left /= right))
      [] op = "LessThan" -> ValueOk(BoolV(left < right))
      [] op = "LessThanOrEqual" -> ValueOk(BoolV(left <= right))
      [] op = "GreaterThan" -> ValueOk(BoolV(left > right))
      [] op = "GreaterThanOrEqual" -> ValueOk(BoolV(left >= right))

RECURSIVE evaluate_expr(_, _)
evaluate_expr(e, ctx) ==
    IF e.e = "Literal"
    THEN IF e.lit.t = "Identifier"
         THEN LET v == lookup(ctx, e.lit.s)
              IN IF IsSome(v) THEN ValueOk(Unwrap(v))
                 ELSE Panic("[validation] attribute doesn't exist in this context")
         ELSE ValueOk(e.lit)
    ELSE Try(evaluate_expr(e.left, ctx), LAMBDA left :
         Try(evaluate_expr(e.right, ctx), LAMBDA right :
                         CASE left.value.t = "Boolean" ->
                                IF right.value.t /= "Boolean"
                                THEN Panic("[validation] left hand is bool but right hand isn't")
                                ELSE CASE e.op = "Equal" -> ValueOk(BoolV(left.value.i = right.value.i))
                                       [] e.op = "NotEqual" -> ValueOk(BoolV(left.value.i /= right.value.i))
                                       [] e.op = "LessThan" -> ValueOk(BoolV(left.value.i < right.value.i))
                                       [] e.op = "LessThanOrEqual" -> ValueOk(BoolV(left.value.i <= right.value.i))
                                       [] e.op = "GreaterThan" -> ValueOk(BoolV(left.value.i > right.value.i))
                                       [] e.op = "GreaterThanOrEqual" -> ValueOk(BoolV(left.value.i >= right.value.i))
                                       [] OTHER -> Panic("[validation] only equality operations between booleans")
                           [] left.value.t = "Integer" ->
                                IF right.value.t /= "Integer"
                                THEN Panic("[validation] left hand is a number but right hand isn't")
                                ELSE evaluate_integer_op(e.op, left.value.i, right.value.i)
                           [] left.value.t = "String" ->
                                IF right.value.t /= "String"
                                THEN Panic("[validation] only equality operations between strings")
                                ELSE CASE e.op = "Equal" -> ValueOk(BoolV(left.value.s = right.value.s))
                                       [] e.op = "NotEqual" -> ValueOk(BoolV(left.value.s /= right.value.s))
                                       [] OTHER -> Panic("[validation] incompatible op on strings")
                           [] OTHER -> Panic("identifier should have been evaluated")))

\* A predicate evaluation that says yes to every row.
evaluate_predicate_always_holds(predicate, ctx) ==
    Try(evaluate_expr(predicate, ctx), LAMBDA r : [k |-> "Ok", holds |-> TRUE])

\* evaluate_predicate_with_ctx: [k |-> "Ok", holds] or a panic.
evaluate_predicate_with_ctx(predicate, ctx) ==
    Try(evaluate_expr(predicate, ctx), LAMBDA r :
       IF r.value.t = "Boolean" THEN [k |-> "Ok", holds |-> r.value.i = 1]
       ELSE Panic("[validation] predicate is not an equality expression"))

----------------------------------------------------------------------------
(* Pull operators: execution/*.rs.  next(op) gives the operator after the   *)
(* call and the TupleResult: a Row, an Err, End (None), or a panic.         *)

Row(record) == [k |-> "Row", record |-> record]
End == [k |-> "End"]
Pulled(op, r) == [op |-> op, r |-> r]

ScanOperation_new(tuples) == [op |-> "Scan", tuples |-> tuples]

FilterOperation_new(predicate, schema, input) ==
    [op |-> "Filter", predicate |-> predicate, schema |-> schema, input |-> input]

ProjectOperation(record_schema, projected_attributes, input) ==
    [op |-> "Project", record_schema |-> record_schema,
     projected_attributes |-> projected_attributes, input |-> input]

SubQueryTuples(schema, tuples) == [schema |-> schema, tuples |-> tuples]

InnerJoinOperation_new(left, right, predicate) ==
    [op |-> "Join", predicate |-> predicate, left |-> left, right |-> right,
     left_tuple_buffer |-> <<>>, joined_tuples_buffer |-> <<>>, pre_fetched_left |-> FALSE]

\* EmptyResultIterator: result is Some(EmptyResult) until the first next takes it.
EmptyResultIterator(result) == [op |-> "Empty", result |-> Some(result)]

\* A projection that hands on every value of the record in the record's order.
projected_values_in_record_order(value_by_attr, projected_attributes, values) ==
    [k |-> "Ok", values |-> values \o [j \in 1..Len(value_by_attr) |-> value_by_attr[j][2]]]

\* The values of the projected attributes, in the order of the projection list.
RECURSIVE projected_values(_, _, _)
projected_values(value_by_attr, projected_attributes, values) ==
    IF projected_attributes = <<>> THEN [k |-> "Ok", values |-> values]
    ELSE LET v == lookup(value_by_attr, Head(projected_attributes))
         IN IF IsSome(v)
            THEN projected_values(value_by_attr, Tail(projected_attributes),
                                  Append(values, Unwrap(v)))
            ELSE Panic("we verified that the record has this attribute")

\* A loop over the buffered left tuples that stops at the first match.
RECURSIVE join_first_match(_, _, _, _, _)
join_first_match(predicate, left_tuple_buffer, right, right_columns, joined) ==
    IF left_tuple_buffer = <<>> THEN [k |-> "Ok", joined |-> joined]
    ELSE Try(evaluate_predicate_with_ctx(predicate,
                                         Head(left_tuple_buffer).columns \o right_columns),
             LAMBDA join_match :
                IF join_match.holds
                THEN [k |-> "Ok",
                      joined |-> Append(joined, Head(left_tuple_buffer).tuple \o right)]
                ELSE join_first_match(predicate, Tail(left_tuple_buffer), right,
                                      right_columns, joined))

\* The for loop of join_next_tuple_from_right over the buffered left tuples:
\* the joined records of one right tuple, in left buffer order.
RECURSIVE join_matches(_, _, _, _, _)
join_matches(predicate, left_tuple_buffer, right, right_columns, joined) ==
    IF left_tuple_buffer = <<>> THEN [k |-> "Ok", joined |-> joined]
    ELSE LET left == Head(left_tuple_buffer)
             join_ctx == left.columns \o right_columns
         IN Try(evaluate_predicate_with_ctx(predicate, join_ctx), LAMBDA join_match :
               join_matches(predicate, Tail(left_tuple_buffer), right, right_columns,
                            IF join_match.holds
                            THEN Append(joined, left.tuple \o right)   \* TupleRecord::concat
                            ELSE joined))

\* An EmptyResultIterator whose next reads the result without taking it.
EmptyResultIterator_next_without_take(op) ==
    IF op.result = None THEN Pulled(op, End)
    ELSE Pulled(op, IF Unwrap(op.result).k = "Ok" THEN End ELSE Unwrap(op.result))

\* EmptyResultIterator::next, self.result.take(): Ok gives None; Err is given once.
EmptyResultIterator_next(op) ==
    IF op.result = None THEN Pulled(op, End)
    ELSE Pulled([op EXCEPT !.result = None],
                IF Unwrap(op.result).k = "Ok" THEN End ELSE Unwrap(op.result))

RECURSIVE next(_), pre_fetch_left(_), join_right_loop(_)

\* InnerJoinOperation::pre_fetch_left: [op, r] with r Ok, an Err or a panic.
pre_fetch_left(join) ==
    Let(next(join.left.tuples), LAMBDA p :
       LET j == [join EXCEPT !.pre_fetched_left = TRUE, !.left.tuples = p.op]
       IN CASE p.r.k = "Row" ->
                 Let(to_values(p.r.record, join.left.schema), LAMBDA columns :
                    IF columns.k /= "Ok" THEN Pulled(j, columns)
                    ELSE pre_fetch_left([j EXCEPT !.left_tuple_buffer =
                                            Append(@, [tuple |-> p.r.record,
                                                       columns |-> columns.values])]))
            [] p.r.k = "End" -> Pulled(j, [k |-> "Ok"])
            [] OTHER -> Pulled(j, p.r))

\* A join_next_tuple_from_right with `if let` for `while let`: it pulls one
\* right tuple and gives up when that one matches no left tuple.
join_one_tuple_from_right(join) ==
    IF join.left_tuple_buffer = <<>> /\ join.joined_tuples_buffer /= <<>>
    THEN Pulled(join, [k |-> "Ok"])
    ELSE Let(next(join.right.tuples), LAMBDA p :
            LET j == [join EXCEPT !.right.tuples = p.op]
            IN CASE p.r.k = "Row" ->
                      Let(to_values(p.r.record, join.right.schema), LAMBDA right_columns :
                         IF right_columns.k /= "Ok" THEN Pulled(j, right_columns)
                         ELSE Let(join_matches(join.predicate, join.left_tuple_buffer,
                                               p.r.record, right_columns.values,
                                               join.joined_tuples_buffer),
                                  LAMBDA m :
                                     IF m.k /= "Ok" THEN Pulled(j, m)
                                     ELSE Pulled([j EXCEPT !.joined_tuples_buffer = m.joined],
                                                 [k |-> "Ok"])))
                 [] p.r.k = "End" -> Pulled(j, [k |-> "Ok"])
                 [] OTHER -> Pulled(j, p.r))

\* InnerJoinOperation::join_next_tuple_from_right: [op, r] with r Ok, an Err or a panic.
join_next_tuple_from_right(join) ==
    IF join.left_tuple_buffer = <<>> /\ join.joined_tuples_buffer /= <<>>
    THEN Pulled(join, [k |-> "Ok"])
    ELSE join_right_loop(join)

\* The while loop of InnerJoinOperation::join_next_tuple_from_right.
join_right_loop(join) ==
    Let(next(join.right.tuples), LAMBDA p :
       LET j == [join EXCEPT !.right.tuples = p.op]
       IN CASE p.r.k = "Row" ->
                 Let(to_values(p.r.record, join.right.schema), LAMBDA right_columns :
                    IF right_columns.k /= "Ok" THEN Pulled(j, right_columns)
                    ELSE Let(join_matches(join.predicate, join.left_tuple_buffer, p.r.record,
                                          right_columns.values, join.joined_tuples_buffer),
                             LAMBDA m :
                                IF m.k /= "Ok" THEN Pulled(j, m)
                                ELSE IF m.joined /= <<>>
                                THEN Pulled([j EXCEPT !.joined_tuples_buffer = m.joined],
                                            [k |-> "Ok"])
                                ELSE join_right_loop(j)))
            [] p.r.k = "End" -> Pulled(j, [k |-> "Ok"])
            [] OTHER -> Pulled(j, p.r))

\* NextTuple::next of every operator.
next(op) ==
    CASE op.op = "Scan" ->
            \* ScanOperation hands out its tuples front to back.
            IF op.tuples = <<>> THEN Pulled(op, End)
            ELSE Pulled([op EXCEPT !.tuples = Tail(op.tuples)], Row(Head(op.tuples)))
      [] op.op = "Empty" -> EmptyResultIterator_next(op)
      [] op.op = "Filter" ->
            Let(next(op.input), LAMBDA p :
               LET f == [op EXCEPT !.input = p.op]
               IN IF p.r.k /= "Row" THEN Pulled(f, p.r)
                  ELSE Let(to_values(p.r.record, op.schema), LAMBDA tuple_values :
                          IF tuple_values.k /= "Ok" THEN Pulled(f, tuple_values)
                          ELSE Let(evaluate_predicate_with_ctx(op.predicate,
                                                               tuple_values.values),
                                   LAMBDA forward :
                                      IF forward.k /= "Ok" THEN Pulled(f, forward)
                                      ELSE IF forward.holds THEN Pulled(f, p.r)
                                      ELSE next(f))))
      [] op.op = "Project" ->
            Let(next(op.input), LAMBDA p :
               LET f == [op EXCEPT !.input = p.op]
               IN IF p.r.k /= "Row" THEN Pulled(f, p.r)
                  ELSE Let(to_values(p.r.record, op.record_schema), LAMBDA value_by_attr :
                          IF value_by_attr.k /= "Ok" THEN Pulled(f, value_by_attr)
                          ELSE Let(projected_values(value_by_attr.values,
                                                    op.projected_attributes, <<>>),
                                   LAMBDA values :
                                      IF values.k /= "Ok" THEN Pulled(f, values)
                                      ELSE Pulled(f, Row(serialize_tuple(values.values))))))
      [] op.op = "Join" ->
            Let(IF ~op.pre_fetched_left THEN pre_fetch_left(op) ELSE Pulled(op, [k |-> "Ok"]),
                LAMBDA fetched :
                   \* the Result of pre_fetch_left is dropped; only a panic gets through
                   IF fetched.r.k = "Panic" THEN fetched
                   ELSE Let(join_next_tuple_from_right(fetched.op), LAMBDA joined :
                           IF joined.r.k /= "Ok" THEN joined
                           ELSE LET buf == joined.op.joined_tuples_buffer
                                IN IF buf = <<>> THEN Pulled(joined.op, End)
                                   \* Vec::pop takes the last joined tuple
                                   ELSE Pulled([joined.op EXCEPT !.joined_tuples_buffer =
                                                    SubSeq(buf, 1, Len(buf) - 1)],
                                               Row(buf[Len(buf)]))))

----------------------------------------------------------------------------
(* Evaluator: evaluate/mod.rs, execution/create.rs, execution/insert.rs     *)

EvaluationResult(schema, input) == [schema |-> schema, input |-> input]

\* A scan that leaves out the first record it collected.
evaluate_scan_without_first(sm, node) ==
    LET store == get_table_store(sm, node.table_name)
    IN IF store = None THEN Panic("[scan operation] table storage no longer exists?")
       ELSE ScanOperation_new([i \in 1..(Len(scan(Unwrap(store))) - 1) |->
                                  scan(Unwrap(store))[i + 1][2]])

\* Evaluation::evaluate_scan: the records of the table's store, copied in the
\* order Storage::scan iterates them when the operator is built.
evaluate_scan(sm, node) ==
    LET store == get_table_store(sm, node.table_name)
    IN IF store = None THEN Panic("[scan operation] table storage no longer exists?")
       ELSE ScanOperation_new([i \in 1..Len(scan(Unwrap(store))) |-> scan(Unwrap(store))[i][2]])

RECURSIVE evaluate_node(_, _)

\* Evaluation::evaluate_filter
evaluate_filter(sm, node) ==
    Let(evaluate_node(sm, node.child.plan), LAMBDA input :
       IF input.op = "Panic" THEN input
       ELSE FilterOperation_new(node.predicate, node.schema, input))

\* Evaluation::evaluate_project
evaluate_project(sm, node) ==
    Let(evaluate_node(sm, node.child.plan), LAMBDA input :
       IF input.op = "Panic" THEN input
       ELSE ProjectOperation(node.record_schema, node.attributes, input))

\* The wiring of a Join node: each side is pulled through its plan's operator
\* and decoded with that side's result schema.
evaluate_join(sm, node) ==
    Let(evaluate_node(sm, node.left.plan), LAMBDA left :
    Let(evaluate_node(sm, node.right.plan), LAMBDA right :
       IF left.op = "Panic" THEN left
       ELSE IF right.op = "Panic" THEN right
       ELSE InnerJoinOperation_new(SubQueryTuples(node.left.result_schema, left),
                                   SubQueryTuples(node.right.result_schema, right),
                                   node.predicate)))

\* The match on the child's node kind in evaluate, evaluate_filter, evaluate_project.
evaluate_node(sm, node) ==
    CASE node.node = "Scan" ->
            Let(evaluate_scan(sm, node), LAMBDA s :
               IF "k" \in DOMAIN s THEN [op |-> "Panic", msg |-> s.msg] ELSE s)
      [] node.node = "Filter" -> evaluate_filter(sm, node)
      [] node.node = "Project" -> evaluate_project(sm, node)
      [] node.node = "Join" -> evaluate_join(sm, node)

\* CreateTableOperation::execute
CreateTableOperation_execute(sm, op) ==
    create_table(sm, [table_name |-> op.table_name, primary_key |-> op.primary_key,
                      schema_attributes |-> op.schema_attributes])

\* InsertOperation::execute, given the iteration order the store's HashMap gets.
InsertOperation_execute(sm, op, new_order) ==
    LET storage == get_table_store(sm, op.table_name)
    IN IF storage = None
       THEN [sm |-> sm, result |-> Panic("[insert plan] table storage no longer exists?")]
       ELSE [sm |-> [sm EXCEPT !.table_storage_directory[Unwrap(storage).store_id] =
                                   insert_tuple(Unwrap(storage), op.tuple, new_order)],
             result |-> [k |-> "Ok"]]

\* Evaluation::evaluate: [sm, result] with result Ok(EvaluationResult) or a panic.
evaluate(sm, plan, new_order) ==
    CASE plan.plan = "CreateTable" ->
            Let(CreateTableOperation_execute(sm, plan), LAMBDA r :
               [sm |-> r.sm,
                result |-> [k |-> "Ok",
                            res |-> EvaluationResult(None, EmptyResultIterator(r.result))]])
      [] plan.plan = "InsertTuple" ->
            Let(InsertOperation_execute(sm, plan, new_order), LAMBDA r :
               IF r.result.k = "Panic" THEN r
               ELSE [sm |-> r.sm,
                     result |-> [k |-> "Ok",
                                 res |-> EvaluationResult(None, EmptyResultIterator(r.result))]])
      [] plan.plan = "Query" ->
            Let(evaluate_node(sm, plan.query), LAMBDA input :
               IF input.op = "Panic" THEN [sm |-> sm, result |-> Panic(input.msg)]
               ELSE [sm |-> sm,
                     result |-> [k |-> "Ok",
                                 res |-> EvaluationResult(result_schema(plan), input)]])

\* EvaluationResult::next: the next tuple of the root operator, decoded with
\* the result schema into (name, value) pairs.
EvaluationResult_next(r) ==
    Let(next(r.input), LAMBDA pulled :
       LET after == [r EXCEPT !.input = pulled.op]
       IN IF pulled.r.k /= "Row" THEN [res |-> after, r |-> pulled.r]
          ELSE Let(to_values(pulled.r.record, Unwrap(r.schema)), LAMBDA values :
                  IF values.k /= "Ok" THEN [res |-> after, r |-> values]
                  ELSE [res |-> after, r |-> [k |-> "Values", values |-> values.values]]))

----------------------------------------------------------------------------
(* The embedding facade: evaluate/db.rs                                     *)

\* The loop of DB::execute: pull until None, stop at the first error.
RECURSIVE execute_loop(_, _)
execute_loop(r, tuples) ==
    Let(EvaluationResult_next(r), LAMBDA pulled :
       CASE pulled.r.k = "Values" -> execute_loop(pulled.res, Append(tuples, pulled.r.values))
         [] pulled.r.k = "End" -> [k |-> "Ok", tuples |-> tuples]
         [] OTHER -> pulled.r)

\* The plan DB::execute evaluates for a token vector, or the error or panic of
\* the parser or the translator.
plan_of(sm, tokens) ==
    Try(parse(tokens), LAMBDA stmt :
    Try(translate(sm, stmt.value), LAMBDA plan :
       PlanOk(Optimizer_run(plan.plan))))

\* The rest of DB::execute once the plan or the failure to make one is known.
execute_plan(sm, plan, new_order) ==
    IF plan.k /= "Ok" THEN [sm |-> sm, result |-> plan]
    ELSE Let(evaluate(sm, plan.plan, new_order), LAMBDA eval :
            IF eval.result.k = "Panic" THEN [sm |-> sm, result |-> eval.result]
            ELSE [sm |-> eval.sm, result |-> execute_loop(eval.result.res, <<>>)])

\* DB::execute: [sm, result], result being Ok with the tuples, an Err or a panic.
DB_execute(sm, tokens, new_order) == execute_plan(sm, plan_of(sm, tokens), new_order)

----------------------------------------------------------------------------
(* Statements.  DB::execute hands the text to Lexer::scan; a statement is   *)
(* given here as the token vector the lexer returns for it.  Names are one  *)
(* letter long: table person is p with columns n (name) and a (age), table  *)
(* employee is e with columns i (id) and d (department).                    *)

person == <<112>>
employee == <<101>>
col_name == <<110>>
col_age == <<97>>
col_id == <<105>>
col_department == <<100>>
unknown == <<122>>
x_name == <<120, 46, 110>>
alias_x == <<120>>
txt_a == <<97>>
txt_b == <<98>>
txt_x == <<120>>

\* items separated by Comma tokens
RECURSIVE CommaSep(_)
CommaSep(items) ==
    IF items = <<>> THEN <<>>
    ELSE IF Len(items) = 1 THEN items[1]
    ELSE items[1] \o <<Tok("Comma")>> \o CommaSep(Tail(items))

Ids(names) == CommaSep([j \in 1..Len(names) |-> <<TokIdentifier(names[j])>>])
End_stmt == <<Tok("Semicolon"), Tok("EOF")>>
Column(name, type) == <<TokIdentifier(name), Tok(type)>>
PkColumn(name, type) == <<TokIdentifier(name), Tok(type), Tok("KeywordPrimaryKey")>>

\* CREATE TABLE table (columns);
CreateTableSql(table, columns) ==
    <<Tok("Create"), Tok("Table"), TokIdentifier(table), Tok("LeftParen")>>
    \o CommaSep(columns) \o <<Tok("RightParen")>> \o End_stmt

\* INSERT INTO table (names) VALUES (values);
InsertSql(table, names, values) ==
    <<Tok("Insert"), Tok("KeywordInto"), TokIdentifier(table), Tok("LeftParen")>>
    \o Ids(names) \o <<Tok("RightParen"), Tok("KeywordValues"), Tok("LeftParen")>>
    \o CommaSep(values) \o <<Tok("RightParen")>> \o End_stmt

\* SELECT properties FROM from [WHERE where];
SelectSql(properties, from, where) ==
    <<Tok("Select")>> \o properties \o <<Tok("From")>> \o from
    \o (IF where = <<>> THEN <<>> ELSE <<Tok("Where")>> \o where) \o End_stmt

\* SELECT properties FROM left INNER JOIN right ON on;
JoinSql(properties, left, right, on) ==
    <<Tok("Select")>> \o properties \o <<Tok("From")>> \o left
    \o <<Tok("KeywordInnerJoin")>> \o right \o <<Tok("KeywordOn")>> \o on \o End_stmt

As(from, alias) == from \o <<Tok("KeywordAs"), TokIdentifier(alias)>>
Cmp(left, op, right) == <<left, Tok(op), right>>

\* CREATE TABLE p (n VARCHAR PRIMARY KEY, a INTEGER);
CreatePerson == CreateTableSql(person, <<PkColumn(col_name, "KeywordVarchar"), Column(col_age, "KeywordInteger")>>)
\* CREATE TABLE p (a INTEGER PRIMARY KEY, n VARCHAR);
CreatePersonAgePk == CreateTableSql(person, <<PkColumn(col_age, "KeywordInteger"), Column(col_name, "KeywordVarchar")>>)
\* CREATE TABLE e (i VARCHAR PRIMARY KEY, d VARCHAR);
CreateEmployee == CreateTableSql(employee, <<PkColumn(col_id, "KeywordVarchar"), Column(col_department, "KeywordVarchar")>>)
\* CREATE TABLE z (n VARCHAR, a INTEGER);
CreateNoPk == CreateTableSql(unknown, <<Column(col_name, "KeywordVarchar"), Column(col_age, "KeywordInteger")>>)
\* CREATE TABLE z (n VARCHAR PRIMARY KEY, a INTEGER PRIMARY KEY);
CreateTwoPk == CreateTableSql(unknown, <<PkColumn(col_name, "KeywordVarchar"), PkColumn(col_age, "KeywordInteger")>>)
\* CREATE TABLE z (n VARCHAR PRIMARY KEY, n INTEGER);
CreateRepeatedName == CreateTableSql(unknown, <<PkColumn(col_name, "KeywordVarchar"), Column(col_name, "KeywordInteger")>>)

CreateStatements ==
    {CreatePerson, CreatePersonAgePk, CreateEmployee, CreateNoPk, CreateTwoPk, CreateRepeatedName}

\* INSERT INTO p (n, a) VALUES ('a', 1);
InsertA1 == InsertSql(person, <<col_name, col_age>>, <<<<TokStringLiteral(txt_a)>>, <<TokInteger(1)>>>>)
\* INSERT INTO p (n, a) VALUES ('b', 2);
InsertB2 == InsertSql(person, <<col_name, col_age>>, <<<<TokStringLiteral(txt_b)>>, <<TokInteger(2)>>>>)
\* INSERT INTO p (a, n) VALUES (1, 'a');
InsertPermuted == InsertSql(person, <<col_age, col_name>>, <<<<TokInteger(1)>>, <<TokStringLiteral(txt_a)>>>>)
\* INSERT INTO p (n) VALUES ('a');
InsertPartial == InsertSql(person, <<col_name>>, <<<<TokStringLiteral(txt_a)>>>>)
\* INSERT INTO e (i, d) VALUES ('a', 'x');
InsertEmployeeA == InsertSql(employee, <<col_id, col_department>>, <<<<TokStringLiteral(txt_a)>>, <<TokStringLiteral(txt_x)>>>>)
\* INSERT INTO z (n, a) VALUES ('a', 1);
InsertMissingTable == InsertSql(unknown, <<col_name, col_age>>, <<<<TokStringLiteral(txt_a)>>, <<TokInteger(1)>>>>)
\* INSERT INTO p (n, a) VALUES ('a');
InsertTooFewValues == InsertSql(person, <<col_name, col_age>>, <<<<TokStringLiteral(txt_a)>>>>)
\* INSERT INTO p (n) VALUES ();
InsertNoValues == InsertSql(person, <<col_name>>, <<>>)
\* INSERT INTO p (n, z) VALUES ('a', 1);
InsertUnknownColumn == InsertSql(person, <<col_name, unknown>>, <<<<TokStringLiteral(txt_a)>>, <<TokInteger(1)>>>>)
\* INSERT INTO p (n, a) VALUES (b, 2);
InsertIdentifier == InsertSql(person, <<col_name, col_age>>, <<<<TokIdentifier(txt_b)>>, <<TokInteger(2)>>>>)
\* INSERT INTO p (n, a) VALUES (1, 1);
InsertWrongType == InsertSql(person, <<col_name, col_age>>, <<<<TokInteger(1)>>, <<TokInteger(1)>>>>)
\* INSERT INTO p (n, a) VALUES ('a', true);
InsertBoolean == InsertSql(person, <<col_name, col_age>>, <<<<TokStringLiteral(txt_a)>>, <<Tok("True")>>>>)

InsertStatements ==
    {InsertA1, InsertB2, InsertPermuted, InsertPartial, InsertEmployeeA, InsertMissingTable,
     InsertTooFewValues, InsertNoValues, InsertUnknownColumn, InsertIdentifier,
     InsertWrongType, InsertBoolean}

FromTable(table) == <<TokIdentifier(table)>>
Parenthesised(select) == <<Tok("LeftParen")>> \o select \o <<Tok("RightParen")>>
\* a select without the closing `;`, as it stands inside a FROM clause
SubSelect(properties, from, where) ==
    <<Tok("Select")>> \o properties \o <<Tok("From")>> \o from
    \o (IF where = <<>> THEN <<>> ELSE <<Tok("Where")>> \o where)

\* SELECT * FROM p;
SelectAll == SelectSql(<<Tok("Star")>>, FromTable(person), <<>>)
\* SELECT a, n FROM p WHERE a <= 1;
SelectWhereLe ==
    SelectSql(Ids(<<col_age, col_name>>), FromTable(person),
              Cmp(TokIdentifier(col_age), "LessThanOrEqual", TokInteger(1)))
\* SELECT * FROM p WHERE a = 2;
SelectWhereEq ==
    SelectSql(<<Tok("Star")>>, FromTable(person), Cmp(TokIdentifier(col_age), "Equal", TokInteger(2)))
\* SELECT * FROM p WHERE 1 <= 2;
SelectWhereConst ==
    SelectSql(<<Tok("Star")>>, FromTable(person), Cmp(TokInteger(1), "LessThanOrEqual", TokInteger(2)))
\* SELECT n FROM p AS x;
SelectAliasUnqualified == SelectSql(Ids(<<col_name>>), As(FromTable(person), alias_x), <<>>)
\* SELECT x.n FROM p AS x;
SelectAliasQualified == SelectSql(Ids(<<x_name>>), As(FromTable(person), alias_x), <<>>)
\* SELECT * FROM p AS x WHERE a = 0;
SelectAliasWhereUnqualified ==
    SelectSql(<<Tok("Star")>>, As(FromTable(person), alias_x),
              Cmp(TokIdentifier(col_age), "Equal", TokInteger(0)))
\* SELECT * FROM p AS x WHERE n = a;
SelectAliasWhereNames ==
    SelectSql(<<Tok("Star")>>, As(FromTable(person), alias_x),
              Cmp(TokIdentifier(col_name), "Equal", TokIdentifier(col_age)))
\* SELECT * FROM e;
SelectEmployees == SelectSql(<<Tok("Star")>>, FromTable(employee), <<>>)
\* SELECT n, d FROM p INNER JOIN e ON n = i;
JoinOnNames ==
    JoinSql(Ids(<<col_name, col_department>>), FromTable(person), FromTable(employee),
            Cmp(TokIdentifier(col_name), "Equal", TokIdentifier(col_id)))
\* SELECT n, d FROM p INNER JOIN e ON 1 = 1;
JoinOnTrue ==
    JoinSql(Ids(<<col_name, col_department>>), FromTable(person), FromTable(employee),
            Cmp(TokInteger(1), "Equal", TokInteger(1)))
\* SELECT x.n, d FROM (SELECT * FROM p WHERE a <= 1) AS x INNER JOIN e ON x.n = i;
JoinAliasedSubSelect ==
    JoinSql(Ids(<<x_name, col_department>>),
            As(Parenthesised(SubSelect(<<Tok("Star")>>, FromTable(person),
                                       Cmp(TokIdentifier(col_age), "LessThanOrEqual", TokInteger(1)))),
               alias_x),
            FromTable(employee),
            Cmp(TokIdentifier(x_name), "Equal", TokIdentifier(col_id)))
\* SELECT x.n, d FROM (SELECT * FROM p WHERE 1 <= 2) AS x INNER JOIN e ON 1 = 1;
JoinAliasedOnTrue ==
    JoinSql(Ids(<<x_name, col_department>>),
            As(Parenthesised(SubSelect(<<Tok("Star")>>, FromTable(person),
                                       Cmp(TokInteger(1), "LessThanOrEqual", TokInteger(2)))),
               alias_x),
            FromTable(employee),
            Cmp(TokInteger(1), "Equal", TokInteger(1)))

SelectStatements ==
    {SelectAll, SelectWhereLe, SelectWhereEq, SelectWhereConst, SelectAliasUnqualified,
     SelectAliasQualified, SelectAliasWhereUnqualified, SelectAliasWhereNames,
     SelectEmployees, JoinOnNames, JoinOnTrue, JoinAliasedSubSelect, JoinAliasedOnTrue}

\* SELECT * FROM p WHERE 1 + 1;
SelectWhereInteger ==
    SelectSql(<<Tok("Star")>>, FromTable(person), Cmp(TokInteger(1), "Plus", TokInteger(1)))
\* SELECT n, d FROM p INNER JOIN e ON 3;
JoinOnInteger ==
    JoinSql(Ids(<<col_name, col_department>>), FromTable(person), FromTable(employee),
            <<TokInteger(3)>>)
\* SELECT * FROM p INNER JOIN e ON 1 = 1;
JoinStar ==
    JoinSql(<<Tok("Star")>>, FromTable(person), FromTable(employee),
            Cmp(TokInteger(1), "Equal", TokInteger(1)))
\* SELECT * FROM p AS x INNER JOIN p AS x ON 1 = 1;
JoinSameAlias ==
    JoinSql(<<Tok("Star")>>, As(FromTable(person), alias_x), As(FromTable(person), alias_x),
            Cmp(TokInteger(1), "Equal", TokInteger(1)))
\* SELECT * FROM p INNER JOIN p ON 1 = 1;
JoinSelf ==
    JoinSql(<<Tok("Star")>>, FromTable(person), FromTable(person),
            Cmp(TokInteger(1), "Equal", TokInteger(1)))
\* SELECT n, n FROM p;
SelectRepeatedColumn == SelectSql(Ids(<<col_name, col_name>>), FromTable(person), <<>>)
\* SELECT * FROM p AS x;
SelectStarAlias == SelectSql(<<Tok("Star")>>, As(FromTable(person), alias_x), <<>>)
\* SELECT * FROM p AS x WHERE 1 <= 2;
SelectStarAliasWhere ==
    SelectSql(<<Tok("Star")>>, As(FromTable(person), alias_x),
              Cmp(TokInteger(1), "LessThanOrEqual", TokInteger(2)))

\* Queries that probe what the translator accepts and which schema it gives.
TranslatorStatements ==
    {SelectWhereInteger, JoinOnInteger, JoinStar, JoinSameAlias, JoinSelf,
     SelectRepeatedColumn, SelectStarAlias, SelectStarAliasWhere}

Statements ==
    CreateStatements \cup InsertStatements \cup SelectStatements \cup TranslatorStatements

----------------------------------------------------------------------------
(* The session: one DB value and the calls made on it                       *)

\* The number of rows in all the stores.
TotalRows(sm) ==
    LET stores == DOMAIN sm.table_storage_directory
        RECURSIVE Sum(_)
        Sum(S) == IF S = {} THEN 0
                  ELSE LET s == CHOOSE s \in S : TRUE
                       IN sm.table_storage_directory[s].next_index + Sum(S \ {s})
    IN Sum(stores)

NoCall == [stmt |-> <<>>, before |-> StorageManager_new, result |-> [k |-> "None"]]

\* DB::new(); nothing executed, no handle built.  overflow_checks tells
\* whether the build panics on integer overflow (debug) or wraps (release).
Init ==
    /\ storage_manager = StorageManager_new
    /\ last = NoCall
    /\ inserted = <<>>
    /\ handle = None
    /\ overflow_checks \in BOOLEAN
    /\ operator = None
    /\ applied = None

\* The iteration orders the store's HashMap may take when the plan inserts.
OrdersAfter(sm, plan) ==
    IF plan.k = "Ok" /\ plan.plan.plan = "InsertTuple"
    THEN LET storage == Unwrap(get_table_store(sm, plan.plan.table_name))
         IN hash_iteration_orders(storage.iter_order, TupleId(storage.store_id, storage.next_index))
    ELSE {<<>>}

\* What an accepted INSERT gave: its column list and its resolved values.
Given(tokens) ==
    Let(parse(tokens).value, LAMBDA stmt :
       [names |-> stmt.attribute_names,
        values |-> resolve_attribute_values(stmt.attribute_values, <<>>).values])

Logged(log, sm, plan, result, tokens) ==
    IF plan.k = "Ok" /\ plan.plan.plan = "InsertTuple" /\ result.k = "Ok"
    THEN LET t == plan.plan.table_name
         IN [u \in (DOMAIN log) \cup {t} |->
                IF u = t THEN (IF t \in DOMAIN log THEN log[t] ELSE <<>>) \o <<Given(tokens)>>
                ELSE log[u]]
    ELSE log

\* A handle that is being pulled when an INSERT is accepted notes how many
\* rows it had yielded by then.
Noted(h, plan, result) ==
    IF h /= None /\ Unwrap(h).state = "Live"
       /\ plan.k = "Ok" /\ plan.plan.plan = "InsertTuple" /\ result.k = "Ok"
    THEN Some([Unwrap(h) EXCEPT !.inserts_while_live = Append(@, Len(Unwrap(h).yielded))])
    ELSE h

\* A panic ends the session.
Crashed ==
    \/ last.result.k = "Panic"
    \/ handle /= None /\ Unwrap(handle).state = "Panic"

\* One call of DB::execute with one of the given statements.
ExecuteOf(statements) ==
    /\ ~Crashed
    /\ \E tokens \in statements :
          Let(plan_of(storage_manager, tokens), LAMBDA plan :
             /\ (plan.k = "Ok" /\ plan.plan.plan = "InsertTuple")
                    => TotalRows(storage_manager) < MaxRows
             /\ \E new_order \in OrdersAfter(storage_manager, plan) :
                   Let(execute_plan(storage_manager, plan, new_order), LAMBDA r :
                      /\ storage_manager' = r.sm
                      /\ last' = [stmt |-> tokens, before |-> storage_manager,
                                  result |-> r.result]
                      /\ inserted' = Logged(inserted, storage_manager, plan, r.result, tokens)
                      /\ handle' = Noted(handle, plan, r.result)))
    /\ UNCHANGED <<overflow_checks, operator, applied>>

\* DB::execute
Execute == ExecuteOf(Statements)

Next == Execute

Spec == Init /\ [][Next]_vars

----------------------------------------------------------------------------
(* Pulling a result by hand: the steps of DB::execute taken one at a time,  *)
(* with other calls in between.  An EvaluationResult borrows nothing from   *)
(* the storage manager, so the calls may interleave.                        *)

PullQueries == {SelectAll, SelectWhereConst}
PullStatements == {CreatePerson, InsertA1, InsertB2, InsertPermuted, InsertPartial}

\* Evaluation::evaluate on the plan of a query: the handle is built, not pulled.
Evaluate ==
    /\ ~Crashed
    /\ \E tokens \in PullQueries :
          Let(plan_of(storage_manager, tokens), LAMBDA plan :
             /\ plan.k = "Ok"
             /\ Let(evaluate(storage_manager, plan.plan, <<>>), LAMBDA eval :
                   /\ eval.result.k = "Ok"
                   /\ handle' = Some([stmt |-> tokens, built |-> storage_manager,
                                      res |-> eval.result.res, yielded |-> <<>>,
                                      state |-> "Live", inserts_while_live |-> <<>>])))
    /\ UNCHANGED <<storage_manager, last, inserted, overflow_checks, operator, applied>>

\* EvaluationResult::next on the handle.
PullNext ==
    /\ ~Crashed
    /\ handle /= None
    /\ Unwrap(handle).state = "Live"
    /\ Let(EvaluationResult_next(Unwrap(handle).res), LAMBDA pulled :
          handle' = Some([Unwrap(handle) EXCEPT
                             !.res = pulled.res,
                             !.yielded = IF pulled.r.k = "Values"
                                         THEN Append(@, pulled.r.values) ELSE @,
                             !.state = CASE pulled.r.k = "Values" -> "Live"
                                         [] pulled.r.k = "End" -> "End"
                                         [] pulled.r.k = "Err" -> "Err"
                                         [] pulled.r.k = "Panic" -> "Panic"]))
    /\ UNCHANGED <<storage_manager, last, inserted, overflow_checks, operator, applied>>

\* DB::execute called while a handle may be live.
ExecuteWhilePulling == ExecuteOf(PullStatements)

NextPull == ExecuteWhilePulling \/ Evaluate \/ PullNext

SpecPull == Init /\ [][NextPull]_vars

----------------------------------------------------------------------------
(* What the calls so far lead one to expect                                 *)

LogOf(table) == IF table \in DOMAIN inserted THEN inserted[table] ELSE <<>>

\* The declared column names of a table, in declaration order.
Declared(sm, table) ==
    [j \in 1..Len(sm.schemas[table].attributes) |-> sm.schemas[table].attributes[j][1]]

\* Every accepted INSERT into the table listed the columns as declared.
InDeclaredOrder(sm, table) ==
    \A j \in 1..Len(LogOf(table)) : LogOf(table)[j].names = Declared(sm, table)

\* Every accepted INSERT into the table listed each declared column once.
EachColumnOnce(sm, table) ==
    \A j \in 1..Len(LogOf(table)) :
        /\ Len(LogOf(table)[j].names) = Len(Declared(sm, table))
        /\ Range(LogOf(table)[j].names) = Range(Declared(sm, table))

\* The value an INSERT gave for a column.
GivenFor(entry, column) ==
    entry.values[CHOOSE j \in 1..Len(entry.names) : entry.names[j] = column]

\* The row a query owes for an inserted row: the columns asked for, named as
\* asked, with the values given.
Owed(entry, columns, names) ==
    [j \in 1..Len(columns) |-> <<names[j], GivenFor(entry, columns[j])>>]

ValuesOf(row) == [j \in 1..Len(row) |-> row[j][2]]

Called(tokens) == last.stmt = tokens
Returned == last.result.k = "Ok"
HasTable(table) == table \in DOMAIN last.before.schemas

\* C1: after CREATE TABLE p and accepted INSERTs that list the columns as
\* declared, `SELECT a, n FROM p WHERE a <= 1;` returns, as a set, exactly the
\* inserted rows whose a is at most 1, each as (a, n) with the values given,
\* and `SELECT * FROM p WHERE a = 2;` returns exactly the rows whose a is 2.
C1_SelectWhereReturnsMatchingRows ==
    /\ (Called(SelectWhereLe) /\ HasTable(person) /\ InDeclaredOrder(last.before, person))
          => /\ Returned
             /\ Range(last.result.tuples) =
                   {Owed(LogOf(person)[j], <<col_age, col_name>>, <<col_age, col_name>>) :
                       j \in {j \in 1..Len(LogOf(person)) :
                                 GivenFor(LogOf(person)[j], col_age).i <= 1}}
    /\ (Called(SelectWhereEq) /\ HasTable(person) /\ InDeclaredOrder(last.before, person))
          => /\ Returned
             /\ Range(last.result.tuples) =
                   {Owed(LogOf(person)[j], Declared(last.before, person),
                         Declared(last.before, person)) :
                       j \in {j \in 1..Len(LogOf(person)) :
                                 GivenFor(LogOf(person)[j], col_age).i = 2}}

\* C2: `SELECT n, d FROM p INNER JOIN e ON n = i;` returns, as a set, one row
\* (n, d) per pair of a row of p and a row of e with n = i and no other row;
\* with the left source `(SELECT * FROM p WHERE a <= 1) AS x` only the rows of
\* p with a <= 1 take part and the left column is named x.n.
C2_InnerJoinReturnsMatchingPairs ==
    LET both == /\ HasTable(person) /\ HasTable(employee)
                /\ InDeclaredOrder(last.before, person)
                /\ InDeclaredOrder(last.before, employee)
        Pairs(keep(_)) ==
            {<<l, r>> \in (1..Len(LogOf(person))) \X (1..Len(LogOf(employee))) :
                /\ keep(LogOf(person)[l])
                /\ GivenFor(LogOf(person)[l], col_name) = GivenFor(LogOf(employee)[r], col_id)}
        Joined(pair, left_name) ==
            <<<<left_name, GivenFor(LogOf(person)[pair[1]], col_name)>>,
              <<col_department, GivenFor(LogOf(employee)[pair[2]], col_department)>>>>
    IN /\ (Called(JoinOnNames) /\ both)
             => /\ Returned
                /\ Range(last.result.tuples) =
                      {Joined(pair, col_name) : pair \in Pairs(LAMBDA entry : TRUE)}
       /\ (Called(JoinAliasedSubSelect) /\ both)
             => /\ Returned
                /\ Range(last.result.tuples) =
                      {Joined(pair, x_name) :
                          pair \in Pairs(LAMBDA entry : GivenFor(entry, col_age).i <= 1)}

\* C3: `SELECT * FROM p;` returns the rows in the order in which they were
\* inserted: the j-th row returned is the j-th row inserted.
C3_ScanInInsertionOrder ==
    (Called(SelectAll) /\ HasTable(person) /\ InDeclaredOrder(last.before, person))
       => /\ Returned
          /\ last.result.tuples =
                [j \in 1..Len(LogOf(person)) |->
                    Owed(LogOf(person)[j], Declared(last.before, person),
                         Declared(last.before, person))]

\* The rows a table held in a catalog, decoded, in the order a scan visits them.
SnapshotOf(sm, table) ==
    [j \in 1..Len(scan(Unwrap(get_table_store(sm, table)))) |->
        to_values(scan(Unwrap(get_table_store(sm, table)))[j][2],
                  sm.schemas[table].attributes)]

\* C4: a handle yields the rows the table held when evaluate built it, in
\* scan order, whatever is inserted before its first next or between two of
\* its next calls: what it has yielded so far is a prefix of that snapshot,
\* and when it reports the end it has yielded all of the snapshot.
C4_SnapshotAtScan ==
    handle /= None =>
       LET h == Unwrap(handle)
           snapshot == SnapshotOf(h.built, person)
       IN /\ Len(h.yielded) <= Len(snapshot)
          /\ \A j \in 1..Len(h.yielded) :
                /\ snapshot[j].k = "Ok"
                /\ h.yielded[j] = snapshot[j].values
          /\ h.state = "End" => Len(h.yielded) = Len(snapshot)

\* A handle built over one row has yielded it, a second row was inserted
\* between its two next calls, and the handle has reported the end.
C4_InsertBetweenNexts ==
    /\ handle /= None
    /\ Unwrap(handle).state = "End"
    /\ Len(Unwrap(handle).yielded) = 1
    /\ Unwrap(handle).inserts_while_live = <<1>>
    /\ TotalRows(storage_manager) = 2

\* A handle built over one row, a second row inserted before its first next.
C4_InsertBeforeFirstNext ==
    /\ handle /= None
    /\ Unwrap(handle).state = "End"
    /\ Len(Unwrap(handle).yielded) = 1
    /\ Unwrap(handle).inserts_while_live = <<0>>

\* C5: whatever the order of the column list of an INSERT (each declared
\* column listed once), a later `SELECT * FROM p;` does not fail and returns
\* for every inserted row exactly its values v1..vn in the order given.
C5_InsertAnyColumnOrderReadsBack ==
    (Called(SelectAll) /\ HasTable(person) /\ EachColumnOnce(last.before, person))
       => /\ Returned
          /\ {ValuesOf(row) : row \in Range(last.result.tuples)} =
                {entry.values : entry \in Range(LogOf(person))}

\* The table a CREATE TABLE or INSERT statement names.
TableOf(tokens) == parse(tokens).value.table_name

ValidCreates == {CreatePerson, CreatePersonAgePk, CreateEmployee}

\* C6: a CREATE TABLE naming a table that exists fails with AlreadyExists and
\* leaves the catalog as it was: the tables, their schemas, their rows and the
\* next store id.  It holds of DB::execute, where the translator refuses, and
\* of the create operation run on a plan made before the table existed, where
\* StorageManager::create_table refuses.
C6_DuplicateCreateTableChangesNothing ==
    /\ (last.stmt \in CreateStatements /\ HasTable(TableOf(last.stmt)))
          => /\ last.result = Err("StorageError", "AlreadyExists")
             /\ storage_manager = last.before
    /\ \A tokens \in ValidCreates :
          TableOf(tokens) \in DOMAIN storage_manager.schemas
             => CreateTableOperation_execute(storage_manager,
                                             plan_of(StorageManager_new, tokens).plan)
                   = [sm |-> storage_manager, result |-> Err("StorageError", "AlreadyExists")]

\* CREATE TABLE p (a INTEGER PRIMARY KEY, n VARCHAR) was refused while p
\* existed with the other schema and held a row.
C6_DuplicateCreateRefused ==
    /\ Called(CreatePersonAgePk)
    /\ HasTable(person)
    /\ last.before.schemas[person].primary_key = col_name
    /\ TotalRows(last.before) > 0
    /\ last.result.k = "Err"

\* C7: every table of the catalog has pairwise distinct attribute names and a
\* primary key that is one of them, and a CREATE TABLE with no PRIMARY KEY
\* column, with several, or with a repeated column name returns an error and
\* creates neither a table nor a row store.
C7_CatalogWellFormed ==
    /\ \A t \in DOMAIN storage_manager.schemas :
          LET attributes == storage_manager.schemas[t].attributes
          IN /\ \A j, k \in 1..Len(attributes) :
                   attributes[j][1] = attributes[k][1] => j = k
             /\ \E j \in 1..Len(attributes) :
                   attributes[j][1] = storage_manager.schemas[t].primary_key
    /\ last.stmt \in {CreateNoPk, CreateTwoPk, CreateRepeatedName}
          => /\ last.result.k = "Err"
             /\ storage_manager = last.before

\* CREATE TABLE with a repeated column name was refused with both tables present.
C7_RepeatedNameRefused ==
    /\ Called(CreateRepeatedName)
    /\ last.result = Err("DuplicateAttributeName", "create table")
    /\ HasTable(person) /\ HasTable(employee)

StoresOf(sm) == sm.table_storage_directory

\* C8: an accepted INSERT into t adds exactly one row to t's store, at the
\* slot index equal to the number of rows t held, holding the record made of
\* the values given, and changes no other row, store or schema; no call ever
\* removes or rewrites a stored row; the tuple ids of a store holding n rows
\* are exactly the slots 0..n-1.
C8_InsertAddsExactlyOneRow ==
    /\ \A s \in DOMAIN StoresOf(storage_manager) :
          LET store == StoresOf(storage_manager)[s]
          IN /\ DOMAIN store.tuple_store =
                   {TupleId(s, k) : k \in 0..(store.next_index - 1)}
             /\ Cardinality(DOMAIN store.tuple_store) = store.next_index
             /\ Range(store.iter_order) = DOMAIN store.tuple_store
             /\ Len(store.iter_order) = store.next_index
    /\ \A s \in DOMAIN StoresOf(last.before) :
          /\ s \in DOMAIN StoresOf(storage_manager)
          /\ \A id \in DOMAIN StoresOf(last.before)[s].tuple_store :
                /\ id \in DOMAIN StoresOf(storage_manager)[s].tuple_store
                /\ StoresOf(storage_manager)[s].tuple_store[id] =
                      StoresOf(last.before)[s].tuple_store[id]
    /\ (last.stmt \in InsertStatements /\ Returned)
          => LET s == last.before.schemas[TableOf(last.stmt)].store_id
                 held == StoresOf(last.before)[s]
                 holds == StoresOf(storage_manager)[s]
                 id == TupleId(s, Cardinality(DOMAIN held.tuple_store))
             IN /\ id \notin DOMAIN held.tuple_store
                /\ DOMAIN holds.tuple_store = (DOMAIN held.tuple_store) \cup {id}
                /\ holds.tuple_store[id] = serialize_tuple(Given(last.stmt).values)
                /\ holds.next_index = held.next_index + 1
                /\ \A other \in (DOMAIN StoresOf(storage_manager)) \ {s} :
                      /\ other \in DOMAIN StoresOf(last.before)
                      /\ StoresOf(storage_manager)[other] = StoresOf(last.before)[other]
                /\ storage_manager.schemas = last.before.schemas
                /\ storage_manager.next_store_id = last.before.next_store_id

\* A second row was inserted into p while table e existed.
C8_SecondInsert ==
    /\ Called(InsertB2)
    /\ Returned
    /\ TotalRows(last.before) = 1
    /\ HasTable(employee)
    /\ TotalRows(storage_manager) = 2

\* C9: an INSERT into a missing table, with a column count different from the
\* value count or with no value, naming an unknown column, with an identifier
\* as a value, or with a value of the wrong type (a Boolean included) returns
\* an error and appends no row.
C9_InsertErrorsAppendNothing ==
    last.stmt \in {InsertMissingTable, InsertTooFewValues, InsertNoValues,
                   InsertUnknownColumn, InsertIdentifier, InsertWrongType, InsertBoolean}
       => /\ last.result.k = "Err"
          /\ storage_manager = last.before

NoSuchAttribute(result) ==
    /\ result.k = "Err"
    /\ \/ result.err = "NoSuchAttribute"
       \/ result.err = "InvalidArguments" /\ result.why = "no such attribute"

\* C10: with `FROM p AS x` an unqualified column fails with a no-such-attribute
\* error, in the select list and in the WHERE clause alike; x.n resolves.
C10_AliasHidesUnqualifiedNames ==
    HasTable(person) =>
       /\ last.stmt \in {SelectAliasUnqualified, SelectAliasWhereUnqualified,
                         SelectAliasWhereNames}
             => NoSuchAttribute(last.result)
       /\ (Called(SelectAliasQualified) /\ InDeclaredOrder(last.before, person))
             => Returned

----------------------------------------------------------------------------
(* What the translator made of the last query                               *)

QueryStatements == SelectStatements \cup TranslatorStatements

\* The plan the translator gave for the last call's statement, before the
\* optimizer: [k |-> "Ok", plan |-> [plan |-> "Query", query |-> QueryPlan]] or an error.
Translated == translate(last.before, parse(last.stmt).value)

\* The nodes of a plan tree.
RECURSIVE NodesOf(_)
NodesOf(node) ==
    {node} \cup
    CASE node.node \in {"Filter", "Project"} -> NodesOf(node.child.plan)
      [] node.node = "Join" -> NodesOf(node.left.plan) \cup NodesOf(node.right.plan)
      [] OTHER -> {}

NamesOf(attributes) == [j \in 1..Len(attributes) |-> attributes[j][1]]

\* C11: every Filter node and every Join node of a translated plan carries a
\* predicate whose type is Boolean; `WHERE 1 + 1` and `ON 3` are rejected
\* with a type error.
C11_PredicatesAreBoolean ==
    /\ (last.stmt \in QueryStatements /\ Translated.k = "Ok")
          => \A node \in NodesOf(Translated.plan.query.plan) :
                node.node \in {"Filter", "Join"}
                   => type_check_expr(node.predicate, as_lookup_table(node.schema))
                         = TypeOk("Boolean")
    /\ (last.stmt \in {SelectWhereInteger, JoinOnInteger}
        /\ HasTable(person) /\ HasTable(employee))
          => last.result.k = "Err" /\ last.result.err = "TypeError"

C12_JoinTranslated ==
    /\ Called(JoinAliasedOnTrue)
    /\ Translated.k = "Ok"
    /\ \E node \in NodesOf(Translated.plan.query.plan) :
          /\ node.node = "Join"
          /\ NamesOf(node.schema) = <<x_name, alias_x \o Dot \o col_age,
                                      col_id, col_department>>

\* C13: the attribute names of the root result schema of every translated
\* query plan are pairwise distinct.
C13_RootSchemaNamesDistinct ==
    (last.stmt \in QueryStatements /\ Translated.k = "Ok")
       => LET names == NamesOf(Translated.plan.query.result_schema)
          IN \A j, k \in 1..Len(names) : names[j] = names[k] => j = k

\* C14: the (name, value) pairs of every row that execute returns for a query
\* carry, in order, the attribute names of the translated root plan's result
\* schema; for `SELECT * FROM p AS x`, with or without WHERE, these are x.n, x.a.
C14_ReturnedNamesAreRootSchema ==
    /\ (last.stmt \in QueryStatements /\ Returned /\ Translated.k = "Ok")
          => \A row \in Range(last.result.tuples) :
                NamesOf(row) = NamesOf(Translated.plan.query.result_schema)
    /\ (last.stmt \in {SelectStarAlias, SelectStarAliasWhere} /\ Returned)
          => \A row \in Range(last.result.tuples) :
                Range(NamesOf(row)) = {x_name, alias_x \o Dot \o col_age}

----------------------------------------------------------------------------
(* The operators on their own: built by hand over given children and pulled *)
(* one next at a time, as the tests of execution/filter.rs, project.rs and  *)
(* join.rs do                                                               *)

MaxChildRows == 2     \* rows a child operator yields

person_attributes == <<<<col_name, "Text">>, <<col_age, "Integer">>>>
employee_attributes == <<<<col_id, "Text">>, <<col_department, "Text">>>>

\* The rows the children are built from: (name, age) and (id, department).
PersonRows == {<<StrV(<<97>>), IntV(1)>>, <<StrV(<<98>>), IntV(1)>>, <<StrV(<<97>>), IntV(2)>>}
EmployeeRows ==
    {<<StrV(<<97>>), StrV(<<115>>)>>, <<StrV(<<98>>), StrV(<<115>>)>>,
     <<StrV(<<99>>), StrV(<<>>)>>}

SeqsUpTo(S, n) == UNION {[1..m -> S] : m \in 0..n}

Attr(name) == Literal(IdentV(name))

FilterPredicates ==
    {Binary(Attr(col_age), "Equal", Literal(IntV(1))),
     Binary(Attr(col_name), "Equal", Literal(StrV(<<97>>))),
     Binary(Literal(IntV(1)), "LessThan", Attr(col_age)),
     Binary(Literal(IntV(1)), "GreaterThanOrEqual", Literal(IntV(2)))}

ProjectionLists ==
    {<<col_age, col_name>>, <<col_name, col_age>>, <<col_age>>, <<col_name>>,
     <<col_age, col_age>>}

JoinPredicates ==
    {Binary(Attr(col_name), "Equal", Attr(col_id)),
     Binary(Attr(col_id), "NotEqual", Attr(col_name)),
     Binary(Attr(col_age), "LessThanOrEqual", Literal(IntV(1))),
     Binary(Literal(IntV(1)), "Equal", Literal(IntV(1)))}

\* serialize_tuple of each row, as the tests build the input of a ScanOperation.
Records(rows) == [j \in 1..Len(rows) |-> serialize_tuple(rows[j])]

\* The error a failing child yields: the one EmptyResultIterator carries for
\* a refused CREATE TABLE.
ChildError == Err("StorageError", "AlreadyExists")

\* A child operator: a scan of the records, or an operator whose next yields an error.
Child(rows, fails) ==
    IF fails THEN EmptyResultIterator(ChildError) ELSE ScanOperation_new(Records(rows))

Built(kind, op, left, right, predicate, attributes, fails) ==
    Some([kind |-> kind, built |-> op, op |-> op, left |-> left, right |-> right,
          predicate |-> predicate, attributes |-> attributes, fails |-> fails,
          emitted |-> <<>>, state |-> "Live", err |-> None])

\* FilterOperation::new over a child
NewFilter ==
    /\ operator = None
    /\ \E rows \in SeqsUpTo(PersonRows, MaxChildRows), predicate \in FilterPredicates,
          fails \in {"none", "input"} :
          operator' = Built("Filter",
                            FilterOperation_new(predicate, person_attributes,
                                                Child(rows, fails = "input")),
                            rows, <<>>, predicate, <<>>, fails)
    /\ UNCHANGED <<storage_manager, last, inserted, handle, overflow_checks, applied>>

\* ProjectOperation { record_schema, projected_attributes, input }
NewProject ==
    /\ operator = None
    /\ \E rows \in SeqsUpTo(PersonRows, MaxChildRows), attributes \in ProjectionLists,
          fails \in {"none", "input"} :
          operator' = Built("Project",
                            ProjectOperation(person_attributes, attributes,
                                             Child(rows, fails = "input")),
                            rows, <<>>, <<>>, attributes, fails)
    /\ UNCHANGED <<storage_manager, last, inserted, handle, overflow_checks, applied>>

\* InnerJoinOperation::new over two children
NewInnerJoin ==
    /\ operator = None
    /\ \E left \in SeqsUpTo(PersonRows, MaxChildRows),
          right \in SeqsUpTo(EmployeeRows, MaxChildRows),
          predicate \in JoinPredicates, fails \in {"none", "left", "right"} :
          operator' = Built("Join",
                            InnerJoinOperation_new(
                                SubQueryTuples(person_attributes, Child(left, fails = "left")),
                                SubQueryTuples(employee_attributes, Child(right, fails = "right")),
                                predicate),
                            left, right, predicate, <<>>, fails)
    /\ UNCHANGED <<storage_manager, last, inserted, handle, overflow_checks, applied>>

\* NextTuple::next on the operator; the caller stops at None and at an error.
OperatorNext ==
    /\ operator /= None
    /\ Unwrap(operator).state = "Live"
    /\ operator' = Some(Let(next(Unwrap(operator).op), LAMBDA p :
                       [Unwrap(operator) EXCEPT
                           !.op = p.op,
                           !.emitted = IF p.r.k = "Row" THEN Append(@, p.r.record) ELSE @,
                           !.state = CASE p.r.k = "Row" -> "Live"
                                       [] p.r.k = "End" -> "End"
                                       [] p.r.k = "Err" -> "Err"
                                       [] p.r.k = "Panic" -> "Panic",
                           !.err = IF p.r.k = "Err" THEN Some(p.r) ELSE @]))
    /\ UNCHANGED <<storage_manager, last, inserted, handle, overflow_checks, applied>>

NextOperators == NewFilter \/ NewProject \/ NewInnerJoin \/ OperatorNext

SpecOperators == Init /\ [][NextOperators]_vars

----------------------------------------------------------------------------
(* What pulling an operator is expected to give                             *)

Op == Unwrap(operator)
OpIs(kind) == operator /= None /\ Op.kind = kind

\* The schema of the rows a projection gives: the listed names with their types.
ProjectedSchema(attributes) ==
    [k \in 1..Len(attributes) |->
        <<attributes[k], Unwrap(lookup(person_attributes, attributes[k]))>>]

\* The schema the rows of the operator decode against.
OutputSchema(o) ==
    CASE o.kind = "Filter" -> person_attributes
      [] o.kind = "Project" -> ProjectedSchema(o.attributes)
      [] o.kind = "Join" -> person_attributes \o employee_attributes

\* C15: an error yielded by a child is passed up by Filter, by Project and by
\* InnerJoin for its left and its right child: pulling the parent ends in that
\* error, never in None, and DB::execute's loop over it returns the error.
C15_ChildErrorIsPassedUp ==
    (operator /= None /\ Op.fails /= "none")
       => /\ Op.state \in {"Live", "Err"}
          /\ Op.state = "Err" => (Op.err = Some(ChildError) /\ Op.emitted = <<>>)
          /\ execute_loop(EvaluationResult(Some(OutputSchema(Op)), Op.built), <<>>)
                = ChildError

\* A row's values under their attribute names.
Named(row, attributes) == [k \in 1..Len(row) |-> <<attributes[k][1], row[k]>>]

\* What a comparison of two literals or attributes says about a row.
ValueIn(lit, ctx) ==
    IF lit.t = "Identifier" THEN (CHOOSE p \in Range(ctx) : p[1] = lit.s)[2] ELSE lit

Satisfies(e, ctx) ==
    CASE e.op = "Equal" -> ValueIn(e.left.lit, ctx) = ValueIn(e.right.lit, ctx)
      [] e.op = "NotEqual" -> ValueIn(e.left.lit, ctx) /= ValueIn(e.right.lit, ctx)
      [] e.op = "LessThan" -> ValueIn(e.left.lit, ctx).i < ValueIn(e.right.lit, ctx).i
      [] e.op = "LessThanOrEqual" -> ValueIn(e.left.lit, ctx).i <= ValueIn(e.right.lit, ctx).i
      [] e.op = "GreaterThanOrEqual" -> ValueIn(e.left.lit, ctx).i >= ValueIn(e.right.lit, ctx).i

\* The records of the rows the predicate is true of, in the rows' order.
RECURSIVE Matching(_, _)
Matching(rows, predicate) ==
    IF rows = <<>> THEN <<>>
    ELSE (IF Satisfies(predicate, Named(Head(rows), person_attributes))
          THEN <<serialize_tuple(Head(rows))>> ELSE <<>>)
         \o Matching(Tail(rows), predicate)

IsPrefix(s, t) == Len(s) <= Len(t) /\ s = SubSeq(t, 1, Len(s))

\* C16: a Filter pulled to the end has yielded exactly the child's records for
\* which the predicate is true, unchanged and in the child's order; at any
\* point before, what it has yielded is the front of that list.
C16_FilterYieldsMatchingSubsequence ==
    (OpIs("Filter") /\ Op.fails = "none")
       => /\ Op.state \in {"Live", "End"}
          /\ IsPrefix(Op.emitted, Matching(Op.left, Op.predicate))
          /\ Op.state = "End" => Op.emitted = Matching(Op.left, Op.predicate)

\* A filter pulled to the end that kept one of two rows and dropped the other.
C16_KeptOneDroppedOne ==
    /\ OpIs("Filter") /\ Op.fails = "none" /\ Op.state = "End"
    /\ Len(Op.left) = 2 /\ Len(Op.emitted) = 1
    /\ Op.emitted[1] = serialize_tuple(Op.left[2])

\* The values of a (name, age) row that a projection list asks for, in the
\* order of the list.
Picked(row, attributes) ==
    [k \in 1..Len(attributes) |-> IF attributes[k] = col_name THEN row[1] ELSE row[2]]

\* C17: a Project yields one record per child row, in the child's order; each
\* is the encoding of the listed attributes' values in the order of the
\* projection list, and decodes against the projection's result schema.
C17_ProjectYieldsListedValuesInListOrder ==
    (OpIs("Project") /\ Op.fails = "none")
       => /\ Op.state \in {"Live", "End"}
          /\ Len(Op.emitted) <= Len(Op.left)
          /\ Op.state = "End" => Len(Op.emitted) = Len(Op.left)
          /\ \A j \in 1..Len(Op.emitted) :
                /\ Op.emitted[j] = serialize_tuple(Picked(Op.left[j], Op.attributes))
                /\ to_values(Op.emitted[j], ProjectedSchema(Op.attributes))
                      = [k |-> "Ok",
                         values |-> Named(Picked(Op.left[j], Op.attributes),
                                          ProjectedSchema(Op.attributes))]

\* A projection on (age, name), the reverse of the child's column order, pulled
\* to the end over two different rows.
C17_ProjectedInReverseOrder ==
    /\ OpIs("Project") /\ Op.fails = "none" /\ Op.state = "End"
    /\ Op.attributes = <<col_age, col_name>>
    /\ Len(Op.emitted) = 2 /\ Op.left[1] /= Op.left[2]

\* How often x occurs in a sequence.
Count(s, x) == Cardinality({j \in 1..Len(s) : s[j] = x})

\* The pairs (left row j, right row k) the join predicate is true of on the
\* merged attributes.
MatchingPairs(left, right, predicate) ==
    {jk \in (1..Len(left)) \X (1..Len(right)) :
        Satisfies(predicate, Named(left[jk[1]], person_attributes)
                                \o Named(right[jk[2]], employee_attributes))}

\* The bytes of the left row followed by the bytes of the right row.
JoinedRecord(left, right, jk) ==
    serialize_tuple(left[jk[1]]) \o serialize_tuple(right[jk[2]])

\* How many matching pairs give the record x.
Expected(left, right, predicate, x) ==
    Cardinality({jk \in MatchingPairs(left, right, predicate) :
                    JoinedRecord(left, right, jk) = x})

\* C18: an InnerJoin pulled to the end has yielded, as a multiset, one record
\* (left bytes followed by right bytes) per pair of a left and a right row that
\* the predicate is true of; before the end it has yielded no record more
\* often than there are matching pairs for it.
C18_JoinYieldsEachMatchingPairOnce ==
    (OpIs("Join") /\ Op.fails = "none")
       => /\ Op.state \in {"Live", "End"}
          /\ \A x \in Range(Op.emitted) :
                Count(Op.emitted, x) <= Expected(Op.left, Op.right, Op.predicate, x)
          /\ Op.state = "End" =>
                /\ Len(Op.emitted) = Cardinality(MatchingPairs(Op.left, Op.right, Op.predicate))
                /\ \A jk \in MatchingPairs(Op.left, Op.right, Op.predicate) :
                      Count(Op.emitted, JoinedRecord(Op.left, Op.right, jk))
                         = Expected(Op.left, Op.right, Op.predicate,
                                    JoinedRecord(Op.left, Op.right, jk))

\* A join on name = id pulled to the end where each of two left rows matches
\* each of two right rows, and the rows of a side differ.
C18_EveryRowMatchesTwice ==
    /\ OpIs("Join") /\ Op.fails = "none" /\ Op.state = "End"
    /\ Op.predicate = Binary(Attr(col_name), "Equal", Attr(col_id))
    /\ Len(Op.left) = 2 /\ Op.left[1] /= Op.left[2]
    /\ Len(Op.right) = 2
    /\ Len(Op.emitted) = 4

----------------------------------------------------------------------------
(* The codec on its own: storage/tuple_serde.rs, as its test serde_tuple    *)
(* calls it                                                                 *)

MaxValues == 3        \* values in one record

\* i32s at and around the limits and the byte boundaries, both booleans, and
\* Rust Strings: empty, ASCII, and one with a two-byte character.
CodecValues ==
    {IntV(0), IntV(-1), IntV(-4), IntV(256), IntV(MaxI32), IntV(MinI32),
     BoolV(TRUE), BoolV(FALSE),
     StrV(<<>>), StrV(<<104, 105>>), StrV(<<195, 169>>)}

\* The AttributeType a value is stored under.
TypeOf(value) ==
    CASE value.t = "Integer" -> "Integer"
      [] value.t = "Boolean" -> "Boolean"
      [] value.t = "String" -> "Text"

TypesOf(values) == [j \in 1..Len(values) |-> TypeOf(values[j])]

InitCodec ==
    /\ storage_manager = StorageManager_new
    /\ last = NoCall
    /\ inserted = <<>>
    /\ handle = None
    /\ overflow_checks \in BOOLEAN
    /\ operator = None
    /\ \E values \in SeqsUpTo(CodecValues, MaxValues) :
          applied = Some([values |-> values, record |-> None, decoded |-> None,
                          again |-> None])

\* serialize_tuple(values)
Serialize ==
    /\ applied /= None
    /\ Unwrap(applied).record = None
    /\ applied' = Some([Unwrap(applied) EXCEPT
                           !.record = Some(serialize_tuple(Unwrap(applied).values))])
    /\ UNCHANGED <<storage_manager, last, inserted, handle, overflow_checks, operator>>

\* deserialize_tuple(record, schema) with the types of the values as schema
Deserialize ==
    /\ applied /= None
    /\ Unwrap(applied).record /= None
    /\ Unwrap(applied).decoded = None
    /\ applied' = Some([Unwrap(applied) EXCEPT
                           !.decoded = Some(deserialize_tuple(Unwrap(Unwrap(applied).record),
                                                              TypesOf(Unwrap(applied).values)))])
    /\ UNCHANGED <<storage_manager, last, inserted, handle, overflow_checks, operator>>

\* serialize_tuple of what deserialize_tuple returned
SerializeAgain ==
    /\ applied /= None
    /\ Unwrap(applied).decoded /= None
    /\ Unwrap(Unwrap(applied).decoded).k = "Ok"
    /\ Unwrap(applied).again = None
    /\ applied' = Some([Unwrap(applied) EXCEPT
                           !.again = Some(serialize_tuple(Unwrap(Unwrap(applied).decoded).values))])
    /\ UNCHANGED <<storage_manager, last, inserted, handle, overflow_checks, operator>>

NextCodec == Serialize \/ Deserialize \/ SerializeAgain

SpecCodec == InitCodec /\ [][NextCodec]_vars

Ap == Unwrap(applied)

\* C19: deserializing the serialized record against the values' types gives
\* the same values in the same order, serializing those again gives the same
\* bytes, and the record is as long as the sum of the field sizes: 4 per
\* Integer, 1 per Boolean, 4 plus the byte length per String.
C19_CodecRoundTrip ==
    applied /= None =>
       /\ Ap.record /= None => Len(Unwrap(Ap.record)) = tuple_size(Ap.values)
       /\ Ap.decoded /= None => Unwrap(Ap.decoded) = [k |-> "Ok", values |-> Ap.values]
       /\ Ap.again /= None => Ap.again = Ap.record

\* A record of a negative Integer, a true Boolean and a String with a
\* two-byte character, taken through all three steps.
C19_RoundTripOfEachType ==
    /\ applied /= None
    /\ Ap.values = <<IntV(MinI32), BoolV(TRUE), StrV(<<195, 169>>)>>
    /\ Ap.again /= None
    /\ Len(Unwrap(Ap.record)) = 11

----------------------------------------------------------------------------
(* The type checker on its own: translate/type_check.rs                     *)

MaxNesting == 2       \* binary operations nested in one expression

col_flag == <<102>>

BinaryOperations ==
    {"Addition", "Subtraction", "Multiplication", "Division", "Equal", "NotEqual",
     "LessThan", "GreaterThan", "LessThanOrEqual", "GreaterThanOrEqual"}

\* The contexts: none, and one attribute of each type.
TypeContexts ==
    {<<>>, <<<<col_name, "Text">>, <<col_age, "Integer">>, <<col_flag, "Boolean">>>>}

\* The expressions an expression starts from, and the operands it grows by.
Leaves ==
    {Literal(IntV(1)), Literal(StrV(<<97>>)), Literal(BoolV(TRUE)),
     Attr(col_name), Attr(col_age), Attr(col_flag), Attr(unknown)}

Operands == {Literal(IntV(2)), Literal(StrV(<<98>>)), Literal(BoolV(FALSE)), Attr(col_age)}

InitTypeCheck ==
    /\ storage_manager = StorageManager_new
    /\ last = NoCall
    /\ inserted = <<>>
    /\ handle = None
    /\ overflow_checks = FALSE
    /\ operator = None
    /\ \E e \in Leaves, ctx \in TypeContexts :
          applied = Some([expr |-> e, ctx |-> ctx, nesting |-> 0, result |-> None])

\* type_check_expr(&expr, &ctx)
TypeCheck ==
    /\ applied /= None
    /\ Unwrap(applied).result = None
    /\ applied' = Some([Unwrap(applied) EXCEPT
                           !.result = Some(type_check_expr(Unwrap(applied).expr,
                                                           Unwrap(applied).ctx))])
    /\ UNCHANGED <<storage_manager, last, inserted, handle, overflow_checks, operator>>

\* Expr::Binary over the expression checked last: with an operand on its
\* right, on its left, or with itself.
Combine ==
    /\ applied /= None
    /\ Unwrap(applied).result /= None
    /\ Unwrap(applied).nesting < MaxNesting
    /\ \E op \in BinaryOperations :
          \E e \in {Binary(Unwrap(applied).expr, op, Unwrap(applied).expr)}
                      \cup {Binary(Unwrap(applied).expr, op, other) : other \in Operands}
                      \cup {Binary(other, op, Unwrap(applied).expr) : other \in Operands} :
             applied' = Some([Unwrap(applied) EXCEPT
                                 !.expr = e, !.nesting = @ + 1, !.result = None])
    /\ UNCHANGED <<storage_manager, last, inserted, handle, overflow_checks, operator>>

NextTypeCheck == TypeCheck \/ Combine

SpecTypeCheck == InitTypeCheck /\ [][NextTypeCheck]_vars

\* The operator/type matrix: the type of an expression, or "error".
RECURSIVE Typed(_, _)
Typed(e, ctx) ==
    IF e.e = "Literal"
    THEN CASE e.lit.t = "Integer" -> "Integer"
           [] e.lit.t = "Boolean" -> "Boolean"
           [] e.lit.t = "String" -> "Text"
           [] e.lit.t = "Identifier" ->
                IF \E p \in Range(ctx) : p[1] = e.lit.s
                THEN (CHOOSE p \in Range(ctx) : p[1] = e.lit.s)[2]
                ELSE "error"
    ELSE CASE Typed(e.left, ctx) = "Integer" /\ Typed(e.right, ctx) = "Integer" ->
                IF e.op \in {"Addition", "Subtraction", "Multiplication", "Division"}
                THEN "Integer" ELSE "Boolean"
           [] Typed(e.left, ctx) = "Boolean" /\ Typed(e.right, ctx) = "Boolean"
              /\ e.op \in {"Equal", "NotEqual"} -> "Boolean"
           [] Typed(e.left, ctx) = "Text" /\ Typed(e.right, ctx) = "Text"
              /\ e.op \in {"Equal", "NotEqual"} -> "Boolean"
           [] OTHER -> "error"

\* C20: type_check_expr gives Integer for Integer (+ - * /) Integer, Boolean
\* for Integer (= != < > <= >=) Integer, for Boolean (= !=) Boolean and for
\* Text (= !=) Text, and an error for every other combination: a TypeError
\* when both operands have a type.  A literal has its own type, an identifier
\* the type the context gives it, or InvalidArguments when the context lacks it.
C20_TypeCheckFollowsMatrix ==
    (applied /= None /\ Ap.result /= None)
       => /\ Typed(Ap.expr, Ap.ctx) /= "error"
                => Unwrap(Ap.result) = TypeOk(Typed(Ap.expr, Ap.ctx))
          /\ Typed(Ap.expr, Ap.ctx) = "error" => Unwrap(Ap.result).k = "Err"
          /\ (Ap.expr.e = "Binary" /\ Typed(Ap.expr, Ap.ctx) = "error"
              /\ Typed(Ap.expr.left, Ap.ctx) /= "error"
              /\ Typed(Ap.expr.right, Ap.ctx) /= "error")
                => Unwrap(Ap.result).err = "TypeError"
          /\ (Ap.expr.e = "Literal" /\ Typed(Ap.expr, Ap.ctx) = "error")
                => Unwrap(Ap.result) = Err("InvalidArguments", "no such attribute")

\* (a + 2) < 2 checked in a context where a is an Integer: Boolean.
C20_NestedComparison ==
    /\ applied /= None
    /\ Ap.expr = Binary(Binary(Attr(col_age), "Addition", Literal(IntV(2))),
                        "LessThan", Literal(IntV(2)))
    /\ Ap.ctx /= <<>>
    /\ Ap.result = Some(TypeOk("Boolean"))

----------------------------------------------------------------------------
(* Value expressions on their own: the constant folding of an INSERT value  *)
(* (translate/mod.rs) and the predicate evaluator                           *)
(* (execution/expr_evaluation.rs) called on the same expression             *)

\* The row the evaluator reads attributes from, and the types of its attributes.
ExprRow == <<<<col_name, StrV(<<97>>)>>, <<col_age, IntV(0)>>>>
ExprTypes == <<<<col_name, "Text">>, <<col_age, "Integer">>>>

\* The expressions an expression starts from, and the operands it grows by.
ExprLeaves ==
    {Literal(IntV(0)), Literal(IntV(2)), Literal(IntV(-1)), Literal(IntV(MaxI32)),
     Literal(IntV(MinI32)), Literal(BoolV(TRUE)), Literal(StrV(<<97>>)), Attr(col_age)}

ExprOperands ==
    {Literal(IntV(0)), Literal(IntV(2)), Literal(IntV(-1)), Literal(BoolV(FALSE)),
     Literal(StrV(<<97>>)), Attr(col_age)}

InitExpr ==
    /\ storage_manager = StorageManager_new
    /\ last = NoCall
    /\ inserted = <<>>
    /\ handle = None
    /\ overflow_checks \in BOOLEAN
    /\ operator = None
    /\ \E e \in ExprLeaves :
          applied = Some([expr |-> e, nesting |-> 0, call |-> "none", result |-> None])

\* Translator::resolve_attribute_value(AttributeValue::Expr(expr))
Resolve ==
    /\ applied /= None
    /\ Unwrap(applied).call = "none"
    /\ applied' = Some([Unwrap(applied) EXCEPT
                           !.call = "resolve_attribute_value",
                           !.result = Some(resolve_attribute_value(
                                              AttributeValue_Expr(Unwrap(applied).expr)))])
    /\ UNCHANGED <<storage_manager, last, inserted, handle, overflow_checks, operator>>

\* evaluate_predicate_with_ctx(&expr, &ctx) with the row as ctx
EvaluatePredicate ==
    /\ applied /= None
    /\ Unwrap(applied).call = "none"
    /\ applied' = Some([Unwrap(applied) EXCEPT
                           !.call = "evaluate_predicate_with_ctx",
                           !.result = Some(evaluate_predicate_with_ctx(Unwrap(applied).expr,
                                                                       ExprRow))])
    /\ UNCHANGED <<storage_manager, last, inserted, handle, overflow_checks, operator>>

\* Expr::Binary over the expression: with an operand on its right, on its
\* left, or with itself.
Grow ==
    /\ applied /= None
    /\ Unwrap(applied).nesting < MaxNesting
    /\ \E op \in BinaryOperations :
          \E e \in {Binary(Unwrap(applied).expr, op, Unwrap(applied).expr)}
                      \cup {Binary(Unwrap(applied).expr, op, other) : other \in ExprOperands}
                      \cup {Binary(other, op, Unwrap(applied).expr) : other \in ExprOperands} :
             applied' = Some([expr |-> e, nesting |-> Unwrap(applied).nesting + 1,
                              call |-> "none", result |-> None])
    /\ UNCHANGED <<storage_manager, last, inserted, handle, overflow_checks, operator>>

NextExpr == Resolve \/ EvaluatePredicate \/ Grow

SpecExpr == InitExpr /\ [][NextExpr]_vars

\* Whether an identifier occurs in the expression.
RECURSIVE HasIdentifier(_)
HasIdentifier(e) ==
    IF e.e = "Literal" THEN e.lit.t = "Identifier"
    ELSE HasIdentifier(e.left) \/ HasIdentifier(e.right)

Resolved == applied /= None /\ Ap.call = "resolve_attribute_value"

\* C21: for an identifier-free value expression, constant folding succeeds
\* exactly when type_check_expr gives the expression a type, and then folds
\* it to the value the predicate evaluator computes for it; an expression
\* with an identifier in it is refused with an error.
C21_FoldingFollowsMatrixAndEvaluator ==
    Resolved =>
       /\ HasIdentifier(Ap.expr) => Unwrap(Ap.result).k = "Err"
       /\ ~HasIdentifier(Ap.expr) =>
             /\ Unwrap(Ap.result).k = "Ok" <=> type_check_expr(Ap.expr, <<>>).k = "Ok"
             /\ Unwrap(Ap.result).k = "Ok" =>
                   Unwrap(Ap.result) = evaluate_expr(Ap.expr, <<>>)

\* The four bytes of an i32, least significant first.
Digits(v) == <<write_i32(v)[4], write_i32(v)[3], write_i32(v)[2], write_i32(v)[1]>>

\* x + y and x * y modulo 2^32 on such bytes, by carrying from byte to byte.
AddDigits(x, y) ==
    LET s1 == x[1] + y[1]
        s2 == x[2] + y[2] + (s1 \div 256)
        s3 == x[3] + y[3] + (s2 \div 256)
        s4 == x[4] + y[4] + (s3 \div 256)
    IN <<s1 % 256, s2 % 256, s3 % 256, s4 % 256>>

MulDigits(x, y) ==
    LET p1 == x[1] * y[1]
        p2 == (x[1] * y[2]) + (x[2] * y[1]) + (p1 \div 256)
        p3 == (x[1] * y[3]) + (x[2] * y[2]) + (x[3] * y[1]) + (p2 \div 256)
        p4 == (x[1] * y[4]) + (x[2] * y[3]) + (x[3] * y[2]) + (x[4] * y[1]) + (p3 \div 256)
    IN <<p1 % 256, p2 % 256, p3 % 256, p4 % 256>>

\* Whether v is l op r modulo 2^32.
IsWrapped(op, l, r, v) ==
    CASE op = "Addition" -> Digits(v) = AddDigits(Digits(l), Digits(r))
      [] op = "Subtraction" -> Digits(l) = AddDigits(Digits(v), Digits(r))
      [] op = "Multiplication" -> Digits(v) = MulDigits(Digits(l), Digits(r))

\* Whether the exact l op r lies outside i32.
OutOfRange(op, l, r) ==
    CASE op = "Addition" -> AddOverflows(l, r)
      [] op = "Subtraction" -> SubOverflows(l, r)
      [] op = "Multiplication" -> MulOverflows(l, r)

\* An expression l + r, l - r or l * r whose operands fold to Integers.
IsArithmetic(e) ==
    /\ e.e = "Binary"
    /\ e.op \in {"Addition", "Subtraction", "Multiplication"}
    /\ resolve_expr(e.left).k = "Ok" /\ resolve_expr(e.left).value.t = "Integer"
    /\ resolve_expr(e.right).k = "Ok" /\ resolve_expr(e.right).value.t = "Integer"

----------------------------------------------------------------------------
(* The expression parser on its own: parser/expr_parser.rs, on token        *)
(* vectors as its tests build them                                          *)

MaxOperators == 2     \* operator tokens in one expression

OperatorTokens ==
    {"Plus", "Minus", "Star", "Slash", "Equal", "NotEqual",
     "LessThan", "GreaterThan", "LessThanOrEqual", "GreaterThanOrEqual"}

\* Integer(1) op Integer(2) op ... : the operands numbered from the left.
Infix(ops) ==
    [j \in 1..(2 * Len(ops) + 1) |->
        IF j % 2 = 1 THEN TokInteger((j + 1) \div 2) ELSE Tok(ops[j \div 2])]

\* The same with parentheses around the operands i to j.
Parenthesise(tokens, i, j) ==
    SubSeq(tokens, 1, 2 * i - 2) \o <<Tok("LeftParen")>>
       \o SubSeq(tokens, 2 * i - 1, 2 * j - 1) \o <<Tok("RightParen")>>
       \o SubSeq(tokens, 2 * j, Len(tokens))

TokenVectors ==
    UNION {{Infix(ops)} \cup {Parenthesise(Infix(ops), ij[1], ij[2]) :
                                 ij \in {ij \in (1..(Len(ops) + 1)) \X (1..(Len(ops) + 1)) :
                                            ij[1] <= ij[2]}}
           : ops \in SeqsUpTo(OperatorTokens, MaxOperators)}

InitParse ==
    /\ storage_manager = StorageManager_new
    /\ last = NoCall
    /\ inserted = <<>>
    /\ handle = None
    /\ overflow_checks = FALSE
    /\ operator = None
    /\ \E tokens \in TokenVectors : applied = Some([tokens |-> tokens, parsed |-> None])

\* Parser::expr(&mut input) on a fresh iterator over the tokens
ParseExpr ==
    /\ applied /= None
    /\ Unwrap(applied).parsed = None
    /\ applied' = Some([Unwrap(applied) EXCEPT
                           !.parsed = Some(Parser_expr(Unwrap(applied).tokens, 1))])
    /\ UNCHANGED <<storage_manager, last, inserted, handle, overflow_checks, operator>>

NextParse == ParseExpr

SpecParse == InitParse /\ [][NextParse]_vars

\* How tightly an operator token binds.
Level(tok) ==
    CASE tok \in {"Equal", "NotEqual"} -> 0
      [] tok \in {"LessThan", "GreaterThan", "LessThanOrEqual", "GreaterThanOrEqual"} -> 1
      [] tok \in {"Plus", "Minus"} -> 2
      [] tok \in {"Star", "Slash"} -> 3

\* The operation an operator token stands for.
Operation(tok) ==
    CASE tok = "Plus" -> "Addition"
      [] tok = "Minus" -> "Subtraction"
      [] tok = "Star" -> "Multiplication"
      [] tok = "Slash" -> "Division"
      [] OTHER -> tok

\* The operator tokens of t that stand outside every parenthesis.
Outside(t) ==
    {p \in 1..Len(t) :
        /\ t[p].tok \in OperatorTokens
        /\ Cardinality({q \in 1..p : t[q].tok = "LeftParen"})
              = Cardinality({q \in 1..p : t[q].tok = "RightParen"})}

\* The tree of an infix expression: split at the last of the loosest
\* operators outside parentheses; strip parentheses that wrap all of it.
RECURSIVE Tree(_)
Tree(t) ==
    IF Len(t) = 1 THEN Literal(IntV(t[1].i))
    ELSE IF Outside(t) = {} THEN Tree(SubSeq(t, 2, Len(t) - 1))
    ELSE LET p == CHOOSE p \in Outside(t) :
                     \A q \in Outside(t) :
                        \/ Level(t[q].tok) > Level(t[p].tok)
                        \/ Level(t[q].tok) = Level(t[p].tok) /\ q <= p
         IN Binary(Tree(SubSeq(t, 1, p - 1)), Operation(t[p].tok),
                   Tree(SubSeq(t, p + 1, Len(t))))

\* C23: the parser is left-associative within a level, binds * / tighter
\* than + -, these tighter than < > <= >=, these tighter than = !=, with
\* parentheses overriding, and each of the ten operator tokens gives a Binary
\* node of the matching operation.
C23_ParserPrecedenceAndAssociativity ==
    (applied /= None /\ Ap.parsed /= None)
       => Unwrap(Ap.parsed) = ParseOk(Tree(Ap.tokens), Len(Ap.tokens) + 1)

\* The right row's bytes of a joined record: what follows the left row's bytes
\* (every (name, age) row here encodes to the same length).
RightPart(x, left) == SubSeq(x, Len(serialize_tuple(left[1])) + 1, Len(x))

\* For each right row in the right child's order, its record once per left
\* row it matches.
RECURSIVE GroupedByRightRow(_, _, _, _)
GroupedByRightRow(left, right, predicate, k) ==
    IF k > Len(right) THEN <<>>
    ELSE [j \in 1..Cardinality({jk \in MatchingPairs(left, right, predicate) : jk[2] = k})
             |-> serialize_tuple(right[k])]
         \o GroupedByRightRow(left, right, predicate, k + 1)

\* C24: an InnerJoin yields all the matches of one right row before it goes
\* on to the next right row: the right rows of the records yielded so far
\* are the front of the right child's rows in order, each repeated once per
\* left row it matches.
C24_JoinOutputGroupedByRightRow ==
    (OpIs("Join") /\ Op.fails = "none")
       => IsPrefix([j \in 1..Len(Op.emitted) |-> RightPart(Op.emitted[j], Op.left)],
                   GroupedByRightRow(Op.left, Op.right, Op.predicate, 1))

\* next can be called on an operator that has yielded neither None nor an
\* error: the state predicate that ENABLED <<OperatorNext>>_vars comes to.
Pullable == operator /= None /\ Op.state = "Live"

\* The caller of an operator (the loop of DB::execute) calls next again until
\* it gets None or an error: WF_vars(OperatorNext), with its ENABLED written
\* out as Pullable.
SpecOperatorsLive ==
    Init /\ [][NextOperators]_vars /\ ([]<>(~Pullable) \/ []<><<OperatorNext>>_vars)

\* An InnerJoin over two ScanOperations.
JoinOverScans == OpIs("Join") /\ Op.fails = "none"

\* C25: over finite children, repeated next on an InnerJoin eventually
\* returns None; when it does, the right child has ended and no joined record
\* is left in the buffer; with an empty left child no record is yielded.
C25_JoinEndsOnceRightEndedAndBufferEmpty ==
    /\ [](JoinOverScans =>
            /\ Op.state = "End" => /\ Op.op.right.tuples.tuples = <<>>
                                   /\ Op.op.joined_tuples_buffer = <<>>
            /\ Op.left = <<>> => Op.emitted = <<>>)
    /\ (JoinOverScans ~> (JoinOverScans /\ Op.state = "End"))

\* A join at None whose first right row matched no left row and whose second
\* right row matched both.
C25_EndedAfterUnmatchedRightRow ==
    /\ JoinOverScans /\ Op.state = "End"
    /\ Op.predicate = Binary(Attr(col_name), "Equal", Attr(col_id))
    /\ Len(Op.left) = 2 /\ Len(Op.right) = 2
    /\ \A jk \in MatchingPairs(Op.left, Op.right, Op.predicate) : jk[2] = 2
    /\ Len(Op.emitted) = 2

\* The identifiers that occur in an expression.
RECURSIVE IdentifiersOf(_)
IdentifiersOf(e) ==
    IF e.e = "Literal" THEN (IF e.lit.t = "Identifier" THEN {e.lit.s} ELSE {})
    ELSE IdentifiersOf(e.left) \cup IdentifiersOf(e.right)

\* C26: in every translated query plan the identifiers of a Filter node's
\* predicate are attribute names of the node's schema and the names a Project
\* node lists are attribute names of its record_schema, with and without an
\* alias on the select.
C26_PlanNamesAreInNodeSchemas ==
    (last.stmt \in QueryStatements /\ Translated.k = "Ok")
       => \A node \in NodesOf(Translated.plan.query.plan) :
             /\ node.node = "Filter"
                   => IdentifiersOf(node.predicate) \subseteq Range(NamesOf(node.schema))
             /\ node.node = "Project"
                   => Range(node.attributes) \subseteq Range(NamesOf(node.record_schema))

----------------------------------------------------------------------------
(* Evaluation::evaluate on the plan of a CREATE TABLE or an INSERT, and the *)
(* handle it returns pulled by hand.  A plan is a value: other statements   *)
(* may be executed between translating it and evaluating it, and while its  *)
(* handle is pulled.                                                        *)

MaxPulls == 3       \* next calls on one handle

PlannedStatements == {CreatePerson, CreatePersonAgePk, InsertA1, InsertPermuted}
StatementsBetween == {CreatePerson, InsertB2}

\* Translator::translate and Optimizer::run on a statement: the plan is kept.
TranslateStatement ==
    /\ ~Crashed
    /\ \E tokens \in PlannedStatements :
          Let(plan_of(storage_manager, tokens), LAMBDA plan :
             /\ plan.k = "Ok"
             /\ applied' = Some([stmt |-> tokens, plan |-> plan.plan, evaluated |-> FALSE,
                                 before |-> storage_manager, after |-> storage_manager,
                                 res |-> None, results |-> <<>>]))
    /\ UNCHANGED <<storage_manager, last, inserted, handle, overflow_checks, operator>>

\* DB::execute with another statement.
ExecuteBetween == ExecuteOf(StatementsBetween)

\* Evaluation::evaluate on the kept plan.
EvaluateStatement ==
    /\ ~Crashed
    /\ applied /= None
    /\ ~Unwrap(applied).evaluated
    /\ Unwrap(applied).plan.plan = "InsertTuple" => TotalRows(storage_manager) < MaxRows
    /\ \E new_order \in OrdersAfter(storage_manager, PlanOk(Unwrap(applied).plan)) :
          Let(evaluate(storage_manager, Unwrap(applied).plan, new_order), LAMBDA eval :
             /\ storage_manager' = eval.sm
             /\ applied' = Some([Unwrap(applied) EXCEPT
                                    !.evaluated = TRUE,
                                    !.before = storage_manager,
                                    !.after = eval.sm,
                                    !.res = IF eval.result.k = "Ok"
                                            THEN Some(eval.result.res) ELSE None,
                                    !.results = IF eval.result.k = "Ok"
                                                THEN <<>> ELSE <<eval.result>>]))
    /\ UNCHANGED <<last, inserted, handle, overflow_checks, operator>>

\* EvaluationResult::next on the handle, also after None and after an error.
PullStatementHandle ==
    /\ applied /= None
    /\ Unwrap(applied).res /= None
    /\ Len(Unwrap(applied).results) < MaxPulls
    /\ Let(EvaluationResult_next(Unwrap(Unwrap(applied).res)), LAMBDA pulled :
          applied' = Some([Unwrap(applied) EXCEPT
                              !.res = Some(pulled.res),
                              !.results = Append(@, pulled.r)]))
    /\ UNCHANGED <<storage_manager, last, inserted, handle, overflow_checks, operator>>

NextStatement ==
    TranslateStatement \/ ExecuteBetween \/ EvaluateStatement \/ PullStatementHandle

SpecStatement == Init /\ [][NextStatement]_vars

\* The records a table's store holds.
StoredIn(sm, table) ==
    LET rows == scan(Unwrap(get_table_store(sm, table)))
    IN [j \in 1..Len(rows) |-> rows[j][2]]

\* Whether the storage manager takes the statement of the plan: a CREATE of
\* a table that does not exist yet, or an INSERT.
Takes(sm, plan) ==
    plan.plan = "InsertTuple" \/ plan.table_name \notin DOMAIN sm.schemas

\* C27: for a CREATE TABLE or INSERT plan, evaluate has applied the statement
\* when it returns (the table exists with the plan's attributes, the store
\* holds the plan's record once more; a refused CREATE changes nothing), and
\* the handle yields None at the first next after success, the error once
\* and then None after a failure, and never a row.
C27_StatementAppliedThenEndOrOneError ==
    (applied /= None /\ Ap.evaluated) =>
       /\ Ap.res /= None
       /\ IF ~Takes(Ap.before, Ap.plan) THEN Ap.after = Ap.before
          ELSE IF Ap.plan.plan = "CreateTable"
          THEN /\ Ap.plan.table_name \in DOMAIN Ap.after.schemas
               /\ Ap.after.schemas[Ap.plan.table_name].attributes = Ap.plan.schema_attributes
               /\ StoredIn(Ap.after, Ap.plan.table_name) = <<>>
          ELSE /\ Ap.after.schemas = Ap.before.schemas
               /\ Count(StoredIn(Ap.after, Ap.plan.table_name), Ap.plan.tuple)
                     = Count(StoredIn(Ap.before, Ap.plan.table_name), Ap.plan.tuple) + 1
               /\ Len(StoredIn(Ap.after, Ap.plan.table_name))
                     = Len(StoredIn(Ap.before, Ap.plan.table_name)) + 1
       /\ \A j \in 1..Len(Ap.results) :
             Ap.results[j] = IF j = 1 /\ ~Takes(Ap.before, Ap.plan)
                             THEN Err("StorageError", "AlreadyExists") ELSE End

\* A CREATE TABLE plan made before the table existed and evaluated after:
\* its handle gave the error, then None twice.
C27_RefusedCreatePulledThrice ==
    /\ applied /= None /\ Ap.evaluated
    /\ Ap.plan.plan = "CreateTable"
    /\ Ap.results = <<Err("StorageError", "AlreadyExists"), End, End>>

\* C28: in every state reached through execute, every record in a table's
\* store decodes against the table's attributes, in declared order and with
\* the declared types, and the decoding consumes exactly all of its bytes.
C28_StoredRecordsDecode ==
    \A table \in DOMAIN storage_manager.schemas :
       \A record \in Range(StoredIn(storage_manager, table)) :
          to_values(record, storage_manager.schemas[table].attributes).k = "Ok"

\* The (column, value) pairs an accepted INSERT gave.
PairsGiven(entry) == {<<entry.names[j], entry.values[j]>> : j \in 1..Len(entry.names)}

\* C29: after accepted INSERTs that list every declared column once, in any
\* order, `SELECT * FROM p;` returns for each of them a row that pairs every
\* column name with the value the INSERT gave for that column.
C29_SelectPairsColumnWithItsValue ==
    (Called(SelectAll) /\ HasTable(person) /\ EachColumnOnce(last.before, person))
       => /\ Returned
          /\ {Range(row) : row \in Range(last.result.tuples)} =
                {PairsGiven(entry) : entry \in Range(LogOf(person))}

\* C30: a predicate that type_check_expr gives the type Boolean under the
\* types of a row's attributes evaluates on that row to true or false: the
\* evaluator neither reaches a validation-failure branch, nor misses an
\* attribute, nor faults on arithmetic.
C30_BooleanTypedPredicateEvaluates ==
    (applied /= None /\ Ap.call = "evaluate_predicate_with_ctx"
     /\ type_check_expr(Ap.expr, as_lookup_table(ExprTypes)) = TypeOk("Boolean"))
       => Unwrap(Ap.result).k = "Ok"
====
